---- MODULE Spec2Model ----
(***************************************************************************)
(* Weaver: the multi-agent orchestrator (router, conversation store,       *)
(* Weaver.chat / Weaver.chat_stream) and the CLI hop loop process_message. *)
(*                                                                         *)
(* Text is a sequence of characters.  Ordinary characters are "a"; "SP"    *)
(* and "NL" are the space and the newline; a delegate token ("/claude",    *)
(* "/local", "/senior", "/junior", and the upper-case "/LOCAL") is one     *)
(* character of the alphabet.                                              *)
(***************************************************************************)
EXTENDS Integers, Sequences, FiniteSets, TLC

VARIABLES
    agents,          \* Weaver.agents: registered agent types, in registration order
    available,       \* agent types whose handle answers is_available() with True
    messages,        \* ConversationManager.messages
    max_history,     \* ConversationManager.max_history
    current_agent,   \* Weaver._current_agent
    pc,              \* "idle", "pm_loop", "stream" (in chat_stream), "chat" (in chat)
    call,            \* the top-level call made: "none", "process_message", "chat_stream", "chat"
    current_message, \* process_message: current_message
    hop_count,       \* process_message: hop_count
    max_hops,        \* process_message: max_hops
    pm_agent_type,   \* process_message: agent_type (its own router.route result)
    message,         \* chat / chat_stream: message
    agent_type,      \* chat / chat_stream: agent_type after the fallback
    full_response,   \* chat_stream: full_response (process_message: response_text)
    stage,           \* position of the agent's stream: "body", "tail"
    console,         \* what the running top-level call has printed
    result,          \* "none", "running", then "returned", "raised", "no_agents" or "cancelled"
    invocations,     \* the agent handles' log: every chat / chat_stream they received
    session_id,      \* ConversationManager.session_id
    now,             \* the clock datetime.now() reads, in half seconds
    exported,        \* <<d>>: the session file export_session wrote; <<>>: no file
    imported,        \* <<c>>: the conversation import_session returned; <<>>: not called
    forked,          \* <<c>>: the conversation fork() returned; <<>>: not called
    arg,             \* the argument of the last call of a function under test
    ret,             \* <<r>>: what that call returned; <<>>: no call yet
    router,          \* Weaver.router: its rules and its default
    memory,          \* per store followed, <<m>>: the WeaverMemory built; <<>>: none
    notes_file,      \* per store followed (or per path), the shared notes file
    returned,        \* per store followed, the last notepad call and what it returned
    journal,         \* per store (or path) and note id, the last write or successful delete
    tasks            \* per asyncio task calling chat / chat_stream: its position and locals

vars == <<agents, available, messages, max_history, current_agent, pc, call,
          current_message, hop_count, max_hops, pm_agent_type, message, agent_type,
          full_response, stage, console, result, invocations, session_id, now,
          exported, imported, forked, arg, ret, router,
          memory, notes_file, returned, journal, tasks>>

(***************************************************************************)
(* Bounds and program constants                                            *)
(***************************************************************************)
\* the largest max_hops given to process_message
MaxHops == 3

\* ConversationManager.__init__: max_history default
DefaultMaxHistory == 100

\* Weaver.chat: max_messages for the senior agent, and for the others
SeniorWindow == 50

JuniorWindow == 20

CLAUDE_CODE == "claude_code"

LOCAL_FAST == "local_fast"

LOCAL_SPECIALIZED == "local_specialized"

AgentType == {CLAUDE_CODE, LOCAL_FAST, LOCAL_SPECIALIZED}

None == "None"

(***************************************************************************)
(* Text                                                                    *)
(***************************************************************************)
Whitespace == {"SP", "NL"}

\* str.lower on one character
LowerChar(c) == IF c = "/LOCAL" THEN "/local" ELSE c

\* str.lower
Lower(s) == [i \in 1..Len(s) |-> LowerChar(s[i])]

MinOf(S) == CHOOSE x \in S : \A y \in S : x <= y

MaxOf(S) == CHOOSE x \in S : \A y \in S : x >= y

\* str.rstrip
RStrip(s) ==
    LET keep == {i \in 1..Len(s) : s[i] \notin Whitespace}
    IN  IF keep = {} THEN <<>> ELSE SubSeq(s, 1, MaxOf(keep))

\* str.lstrip
LStrip(s) ==
    LET keep == {i \in 1..Len(s) : s[i] \notin Whitespace}
    IN  IF keep = {} THEN <<>> ELSE SubSeq(s, MinOf(keep), Len(s))

\* str.strip
Strip(s) == LStrip(RStrip(s))

\* the alternation (?:claude|local|senior|junior) under re.IGNORECASE
DelegateTokens == {"/claude", "/local", "/senior", "/junior"}

\* AGENT_COMMAND_PATTERN matches from position i: a newline, a delegate token,
\* \s+ (at least one whitespace), .+? (at least one character, newlines
\* included under re.DOTALL), then the end of the text.
PatternMatchesAt(response, i) ==
    /\ i + 3 <= Len(response)
    /\ response[i] = "NL"
    /\ LowerChar(response[i + 1]) \in DelegateTokens
    /\ response[i + 2] \in Whitespace

\* extract_agent_command: re.search takes the leftmost match; group(1) runs
\* from the token to the end of the text (a final newline is then stripped).
extract_agent_command(response) ==
    LET starts == {i \in 1..Len(response) : PatternMatchesAt(response, i)}
    IN  IF starts = {}
        THEN [found |-> FALSE, clean |-> response, command |-> <<>>]
        ELSE LET i == MinOf(starts)
             IN  [found   |-> TRUE,
                  clean   |-> RStrip(SubSeq(response, 1, i - 1)),
                  command |-> Strip(SubSeq(response, i + 1, Len(response)))]

(***************************************************************************)
(* Router                                                                  *)
(***************************************************************************)
\* route without the strip
route_unstripped(m) ==
    IF Len(m) > 0 /\ LowerChar(m[1]) \in {"/local", "/junior"}
    THEN <<LOCAL_FAST, "delegation to Junior Engineer">>
    ELSE <<CLAUDE_CODE, "Senior Engineer">>

\* Router.route: (agent_type, reason); the context argument is not read
route(m) ==
    LET message_lower == Strip(Lower(m))
    IN  IF /\ Len(message_lower) > 0
           /\ message_lower[1] \in {"/local", "/junior"}
        THEN <<LOCAL_FAST, "delegation to Junior Engineer">>
        ELSE <<CLAUDE_CODE, "Senior Engineer">>

\* Router.__init__: the rules are stored, the default is always Claude
Router(rules, default) == [rules |-> rules, default |-> CLAUDE_CODE]

\* a route that follows the summary's last agent
Router_route_sticky(self, m, context) ==
    IF context.last_agent = LOCAL_FAST THEN <<LOCAL_FAST, "sticky">> ELSE route(m)

\* Router.route(self, message, context): neither self nor context is read
Router_route(self, m, context) == route(m)

(***************************************************************************)
(* Conversation store                                                      *)
(***************************************************************************)
\* a datetime is a number of half seconds: its whole seconds and its microseconds
Second(t) == t \div 2

Microsecond(t) == t % 2

\* datetime.strftime("%Y%m%d_%H%M%S"), "%H%M%S": whole seconds only
strftime(t) == <<Second(t)>>

\* isoformat(timespec="seconds")
isoformat_seconds(t) == <<Second(t)>>

\* datetime.isoformat: the microseconds are written only when they are not 0
isoformat(t) ==
    IF Microsecond(t) = 0 THEN <<Second(t)>> ELSE <<Second(t), ".", Microsecond(t)>>

\* datetime.fromisoformat
fromisoformat(str) == IF Len(str) = 1 THEN 2 * str[1] ELSE 2 * str[1] + str[3]

\* Message: timestamp defaults to datetime.now(); metadata, a dict with string
\* keys, is the set of its (key, value) items
Message(role, content, agent, metadata) ==
    [role |-> role, content |-> content, agent |-> agent, timestamp |-> now,
     metadata |-> metadata]

IsSystem(m) == m.role = "system"

NotSystem(m) == m.role # "system"

\* lst[-k:] for k > 0
LastN(s, k) == IF k >= Len(s) THEN s ELSE SubSeq(s, Len(s) - k + 1, Len(s))

\* lst[k:] for k >= 0
DropN(s, k) == IF k >= Len(s) THEN <<>> ELSE SubSeq(s, k + 1, Len(s))

\* lst[:k] for k >= 0
FirstN(s, k) == IF k >= Len(s) THEN s ELSE SubSeq(s, 1, k)

\* a trim that keeps the oldest turns where _trim_history keeps the most recent
trim_history_oldest(msgs, limit) ==
    IF Len(msgs) <= limit
    THEN msgs
    ELSE LET system_msgs == SelectSeq(msgs, IsSystem)
             non_system  == SelectSeq(msgs, NotSystem)
             keep_count  == limit - Len(system_msgs)
         IN  IF keep_count > 0
             THEN system_msgs \o FirstN(non_system, keep_count)
             ELSE FirstN(system_msgs, limit)

\* ConversationManager._trim_history
trim_history(msgs, limit) ==
    IF Len(msgs) <= limit
    THEN msgs
    ELSE LET system_msgs == SelectSeq(msgs, IsSystem)
             non_system  == SelectSeq(msgs, NotSystem)
             keep_count  == limit - Len(system_msgs)
         IN  IF keep_count > 0
             THEN system_msgs \o LastN(non_system, keep_count)
             ELSE IF limit > 0 THEN LastN(system_msgs, limit)
                  ELSE DropN(system_msgs, -limit)

\* ConversationManager.add_user_message
add_user_message(msgs, limit, content, metadata) ==
    trim_history(Append(msgs, Message("user", content, None, metadata)), limit)

\* ConversationManager.add_assistant_message
\* add_assistant_message that drops its agent argument
add_assistant_message_unattributed(msgs, limit, content, agent) ==
    trim_history(Append(msgs, Message("assistant", content, None, {})), limit)

add_assistant_message(msgs, limit, content, agent) ==
    trim_history(Append(msgs, Message("assistant", content, agent, {})), limit)

\* ConversationManager.add_system_message: appends, and does not trim
add_system_message(msgs, content) == Append(msgs, Message("system", content, None, {}))

\* ConversationManager.clear
\* clear that does not read keep_system
clear_all(msgs, keep_system) == <<>>

clear(msgs, keep_system) == IF keep_system THEN SelectSeq(msgs, IsSystem) ELSE <<>>

\* ConversationManager.get_last_n_messages: self.messages[-n:] when
\* n < len(self.messages), else a copy of the list; lst[-0:] is the whole list
\* and lst[-n:] for n < 0 is lst without its first -n items
get_last_n_messages(msgs, n) ==
    IF n < Len(msgs)
    THEN IF n > 0 THEN LastN(msgs, n) ELSE DropN(msgs, -n)
    ELSE msgs

\* Message.to_api_format
to_api_format(m) == [role |-> m.role, content |-> m.content]

\* get_context_for_agent, "Apply message limit"; None and 0 are both falsy
message_limit(msgs, max_messages) ==
    IF max_messages # 0 /\ Len(msgs) > max_messages
    THEN LET system_msgs == SelectSeq(msgs, IsSystem)
             non_system  == SelectSeq(msgs, NotSystem)
             keep_count  == max_messages - Len(system_msgs)
         IN  system_msgs \o
             (IF keep_count > 0 THEN LastN(non_system, keep_count)
              ELSE DropN(non_system, -keep_count))
    ELSE msgs

\* sum(len(m.content) for m in messages)
RECURSIVE total_chars(_)
total_chars(msgs) ==
    IF msgs = <<>> THEN 0 ELSE Len(Head(msgs).content) + total_chars(Tail(msgs))

\* messages.pop(i)
Pop(msgs, i) == SubSeq(msgs, 1, i - 1) \o SubSeq(msgs, i + 1, Len(msgs))

\* the character limit popping the newest non-system message
RECURSIVE char_limit_newest(_, _)
char_limit_newest(msgs, max_chars) ==
    IF total_chars(msgs) > max_chars /\ Len(msgs) > 1
    THEN LET non_system == {i \in 1..Len(msgs) : NotSystem(msgs[i])}
         IN  IF non_system = {}
             THEN [hangs |-> TRUE, messages |-> msgs]
             ELSE char_limit_newest(Pop(msgs, MaxOf(non_system)), max_chars)
    ELSE [hangs |-> FALSE, messages |-> msgs]

\* get_context_for_agent, "Apply character limit": the while loop pops the
\* oldest non-system message; when none is left the for loop ends without a
\* pop and the while condition stays true, so the call never returns (hangs)
RECURSIVE char_limit(_, _)
char_limit(msgs, max_chars) ==
    IF total_chars(msgs) > max_chars /\ Len(msgs) > 1
    THEN LET non_system == {i \in 1..Len(msgs) : NotSystem(msgs[i])}
         IN  IF non_system = {}
             THEN [hangs |-> TRUE, messages |-> msgs]
             ELSE char_limit(Pop(msgs, MinOf(non_system)), max_chars)
    ELSE [hangs |-> FALSE, messages |-> msgs]

\* get_context_for_agent: the local list "messages" when the call returns
context_messages(msgs, max_messages, max_chars) ==
    LET limited == message_limit(msgs, max_messages)
    IN  IF max_chars # 0 THEN char_limit(limited, max_chars)
        ELSE [hangs |-> FALSE, messages |-> limited]

\* ConversationManager.get_context_for_agent, max_chars not given
get_context_for_agent(msgs, max_messages) ==
    LET windowed == context_messages(msgs, max_messages, 0).messages
    IN  [i \in 1..Len(windowed) |-> to_api_format(windowed[i])]

\* lst[:-1]
ButLast(s) == IF Len(s) = 0 THEN <<>> ELSE SubSeq(s, 1, Len(s) - 1)

(***************************************************************************)
(* Inputs                                                                  *)
(***************************************************************************)
\* Weaver.__init__ registers claude_code first and local_fast when a local
\* model is configured; add_agent appends local_specialized.
AgentConfigs ==
    {<<CLAUDE_CODE>>, <<CLAUDE_CODE, LOCAL_FAST>>,
     <<CLAUDE_CODE, LOCAL_FAST, LOCAL_SPECIALIZED>>}

\* messages given to process_message, chat and chat_stream
UserMessages == {<<>>, <<"a">>, <<"SP", "/LOCAL", "SP", "a">>}

\* an agent's stream: nothing, or a body fragment and then at most one directive line
BodyChunks == {<<"a">>}

TailChunks == {<<"NL", "/local", "SP", "a">>, <<"NL", "/claude", "SP", "a">>}

\* an agent's complete replies
Replies == {<<>>} \cup {b \o t : b \in BodyChunks, t \in {<<>>} \cup TailChunks}

Registered == {agents[i] : i \in 1..Len(agents)}

(***************************************************************************)
(* Weaver.chat / Weaver.chat_stream                                        *)
(***************************************************************************)
\* chat, chat_stream: "Route to appropriate agent"
\* a routing that does not read force_agent
Routed_unforced(msg, force) == route(msg)

Routed(msg, force) ==
    IF force # None THEN <<force, "forced by caller">> ELSE route(msg)

\* chat, chat_stream: the fallback loop over self.agents.items(); None when
\* the for loop ends without a break
resolve_last(requested) ==
    IF requested \in Registered /\ requested \in available
    THEN requested
    ELSE LET up == {i \in 1..Len(agents) : agents[i] \in available}
         IN  IF up = {} THEN None ELSE agents[MaxOf(up)]

resolve(requested) ==
    IF requested \in Registered /\ requested \in available
    THEN requested
    ELSE LET up == {i \in 1..Len(agents) : agents[i] \in available}
         IN  IF up = {} THEN None ELSE agents[MinOf(up)]

\* chat, chat_stream: max_messages of the context window
WindowFor(agent) == IF agent = CLAUDE_CODE THEN SeniorWindow ELSE JuniorWindow

\* chat, chat_stream from the user turn to the agent invocation: the user turn
\* is appended, the window is built and the handle is called with history[:-1]
Invoke(kind, msg, force, hop) ==
    /\ message' = msg
    /\ agent_type' = resolve(Routed(msg, force)[1])
    /\ messages' = add_user_message(messages, max_history, msg,
                                    {<<"routing_reason", Routed(msg, force)[2]>>})
    /\ invocations' = Append(invocations,
           [kind      |-> kind,
            requested |-> Routed(msg, force)[1],
            up        |-> available,
            agent     |-> agent_type',
            message   |-> msg,
            history   |-> ButLast(get_context_for_agent(messages', WindowFor(agent_type'))),
            hop       |-> hop,
            outcome   |-> "pending",
            response  |-> <<>>])

\* the handle's call ends: how, and what it had produced by then
SetOutcome(outcome, response) ==
    [invocations EXCEPT ![Len(invocations)].outcome = outcome,
                        ![Len(invocations)].response = response]

\* chat_stream: the finally block's update of the conversation
stream_finally(msgs) ==
    IF full_response # <<>>
    THEN add_assistant_message(msgs, max_history, full_response, agent_type)
    ELSE msgs

(***************************************************************************)
(* Shared notepad (WeaverMemory).  A dict is a function from its keys; a   *)
(* file is [kind, items]: "absent", "invalid_json", "list" (a JSON list of  *)
(* objects, its items), "scalars" (a list of numbers), "object" (a JSON     *)
(* object), "null".  The store is followed for both outcomes of the        *)
(* ArangoDB probe: TRUE when it succeeded.                                  *)
(***************************************************************************)
ProbeOutcomes == BOOLEAN

\* Note.to_dict
Note_to_dict(note) ==
    [id |-> note.id, content |-> note.content, author |-> note.author,
     created_at |-> note.created_at, tags |-> note.tags]

\* Note.from_dict: data["id"] and data["content"] raise KeyError when absent
Note_from_dict(data) ==
    [id         |-> data.id,
     content    |-> data.content,
     author     |-> IF "author" \in DOMAIN data THEN data.author ELSE "unknown",
     created_at |-> IF "created_at" \in DOMAIN data THEN data.created_at ELSE <<>>,
     tags       |-> IF "tags" \in DOMAIN data THEN data.tags ELSE <<>>]

\* _load_local_notes: JSONDecodeError and KeyError are caught, the TypeError
\* of iterating or subscripting something else than a list of objects is not
load_local_notes(file) ==
    IF file.kind \in {"absent", "invalid_json"}
    THEN [raised |-> "none", notes |-> <<>>]
    ELSE IF file.kind = "list"
    THEN IF \A i \in 1..Len(file.items) : {"id", "content"} \subseteq DOMAIN file.items[i]
         THEN [raised |-> "none",
               notes  |-> [i \in 1..Len(file.items) |-> Note_from_dict(file.items[i])]]
         ELSE [raised |-> "none", notes |-> <<>>]
    ELSE [raised |-> "TypeError", notes |-> <<>>]

\* _save_local_notes
save_local_notes(notes) ==
    [kind |-> "list", items |-> [i \in 1..Len(notes) |-> Note_to_dict(notes[i])]]

\* WeaverMemory.__init__: the local file is loaded only when the probe failed
WeaverMemory(author, probe_ok, file) ==
    IF probe_ok
    THEN [raised |-> "none",
          self   |-> << [author |-> author, notes |-> <<>>, arango_available |-> TRUE] >>]
    ELSE IF load_local_notes(file).raised # "none"
    THEN [raised |-> load_local_notes(file).raised, self |-> <<>>]
    ELSE [raised |-> "none",
          self   |-> << [author |-> author, notes |-> load_local_notes(file).notes,
                         arango_available |-> FALSE] >>]

\* write_shared: "note_id or uuid" (None and "" both take the uuid), insert at
\* the front, save; returns the id
write_shared(self, content, note_id, tags, uuid) ==
    LET id   == IF note_id = None THEN uuid ELSE note_id
        note == [id |-> id, content |-> content, author |-> self.author,
                 created_at |-> isoformat(now), tags |-> tags]
    IN  [self  |-> [self EXCEPT !.notes = <<note>> \o self.notes],
         file  |-> save_local_notes(<<note>> \o self.notes),
         value |-> id]

\* read_shared returning the oldest note of the id
read_shared_oldest(self, note_id) ==
    LET hits == {i \in 1..Len(self.notes) : self.notes[i].id = note_id}
    IN  IF hits = {} THEN [found |-> FALSE, content |-> <<>>]
        ELSE [found |-> TRUE, content |-> self.notes[MaxOf(hits)].content]

\* read_shared: the content of the first note with the id, or None (found = FALSE)
read_shared(self, note_id) ==
    LET hits == {i \in 1..Len(self.notes) : self.notes[i].id = note_id}
    IN  IF hits = {} THEN [found |-> FALSE, content |-> <<>>]
        ELSE [found |-> TRUE, content |-> self.notes[MinOf(hits)].content]

\* the preview of list_shared: content[:100] + "..." beyond 100 characters
PreviewLength == 100

preview(content) ==
    IF Len(content) > PreviewLength
    THEN SubSeq(content, 1, PreviewLength) \o <<".", ".", ".">>
    ELSE content

\* list_shared: the filters are applied to self._notes[:limit] (limit >= 0);
\* no tags (None or []) and no author (None) do not filter
list_shared(self, tags, author, limit) ==
    LET first == SubSeq(self.notes, 1, IF limit < Len(self.notes) THEN limit ELSE Len(self.notes))
        Matches(n) ==
            /\ author = None \/ n.author = author
            /\ tags = <<>> \/ \E i \in 1..Len(tags), j \in 1..Len(n.tags) : tags[i] = n.tags[j]
        kept == SelectSeq(first, Matches)
    IN  [i \in 1..Len(kept) |->
            [id |-> kept[i].id, author |-> kept[i].author, created_at |-> kept[i].created_at,
             tags |-> kept[i].tags, preview |-> preview(kept[i].content)]]

\* delete_shared: the first note with the id is deleted and the file saved;
\* the file is left alone when there is none
delete_shared(self, file, note_id) ==
    LET hits == {i \in 1..Len(self.notes) : self.notes[i].id = note_id}
    IN  IF hits = {} THEN [self |-> self, file |-> file, value |-> FALSE]
        ELSE [self  |-> [self EXCEPT !.notes = Pop(self.notes, MinOf(hits))],
              file  |-> save_local_notes(Pop(self.notes, MinOf(hits))),
              value |-> TRUE]

(***************************************************************************)
(* process_message                                                         *)
(***************************************************************************)
Ev(kind, text, label) == [kind |-> kind, text |-> text, label |-> label]

\* the while condition
loop_condition_inclusive(cm, hc, mh) == cm # <<>> /\ hc <= mh

loop_condition(cm, hc, mh) == cm # <<>> /\ hc < mh

\* after the loop: the "Maximum agent hops reached" warning
after_loop(cons) ==
    IF hop_count >= max_hops THEN Append(cons, Ev("max_hops", <<>>, None)) ELSE cons

\* the f-string of the auto-bounce; "a" stands for "The Junior Engineer responded:"
AutoBounce(clean_response) == <<"/claude", "SP", "a", "NL", "NL">> \o clean_response

\* where process_message goes after "except Exception": it returns
after_error_continue == "pm_loop"

after_error == "idle"

\* what "except Exception" leaves of process_message's result
error_result == IF after_error = "idle" THEN "returned" ELSE "running"

\* the note ids a caller supplies, and the ids uuid4 draws
NoteIds == {"a"}

Uuids == {"u"}

\* no notepad call was made
NoCall == [op |-> "none", arg |-> <<>>, value |-> <<>>]

\* no write and no delete of the id yet
NoEntry == [op |-> "none", content |-> <<>>]

\* the state of the notepad before any WeaverMemory is built
NoNotepad ==
    /\ memory = [w \in ProbeOutcomes |-> <<>>]
    /\ notes_file = [w \in ProbeOutcomes |-> [kind |-> "absent", items |-> <<>>]]
    /\ returned = [w \in ProbeOutcomes |-> NoCall]
    /\ journal = [w \in ProbeOutcomes |-> [id \in NoteIds \cup Uuids |-> NoEntry]]

\* the asyncio tasks that call chat or chat_stream on one Weaver
Tasks == {1, 2}

\* a task that has not called yet
NoTask ==
    [pc |-> "ready", kind |-> "none", message |-> <<>>, agent_type |-> None,
     full_response |-> <<>>, invocation |-> 0, user_turn |-> 0, assistant_turn |-> 0]

NoTasks == tasks = [t \in Tasks |-> NoTask]

\* groups of variables, for the frame conditions
store == <<session_id, now, exported, imported, forked>>

notepad == <<memory, notes_file, returned, journal>>

fn == <<arg, ret, router, notepad, tasks>>

setup == <<agents, max_history, store, fn>>

pm_locals == <<current_message, hop_count, max_hops, pm_agent_type>>

chat_locals == <<message, agent_type>>

stream_locals == <<full_response, stage>>

Init ==
    /\ agents \in AgentConfigs
    /\ available \in SUBSET {agents[i] : i \in 1..Len(agents)}
    /\ messages = <<>>
    /\ max_history = DefaultMaxHistory
    /\ current_agent = None
    /\ pc = "idle"
    /\ call = "none"
    /\ current_message = <<>>
    /\ hop_count = 0
    /\ max_hops = 0
    /\ pm_agent_type = None
    /\ message = <<>>
    /\ agent_type = None
    /\ full_response = <<>>
    /\ stage = "body"
    /\ console = <<>>
    /\ result = "none"
    /\ invocations = <<>>
    /\ now = 0
    /\ session_id = strftime(now)
    /\ exported = <<>>
    /\ imported = <<>>
    /\ forked = <<>>
    /\ arg = <<>>
    /\ ret = <<>>
    /\ router = Router(<<>>, CLAUDE_CODE)
    /\ NoNotepad
    /\ NoTasks

\* the environment: between two hops an agent stops answering is_available
\* (the local server goes away, the claude binary leaves the PATH)
AgentDown(a) ==
    /\ pc = "pm_loop"
    /\ hop_count >= 1
    /\ loop_condition(current_message, hop_count, max_hops)
    /\ a \in available
    /\ available' = available \ {a}
    /\ UNCHANGED <<setup, messages, current_agent, pc, call, pm_locals, chat_locals,
                   stream_locals, console, result, invocations>>

\* run_interactive calls process_message(orch, user_input)
ProcessMessage(m, mh) ==
    /\ pc = "idle"
    /\ call = "none"
    /\ call' = "process_message"
    /\ current_message' = m
    /\ hop_count' = 0
    /\ max_hops' = mh
    /\ pc' = "pm_loop"
    /\ result' = "running"
    /\ UNCHANGED <<setup, available, messages, current_agent, pm_agent_type,
                   chat_locals, stream_locals, console, invocations>>

\* the loop ends on its condition; the code after the loop runs
PMExit ==
    /\ pc = "pm_loop"
    /\ ~loop_condition(current_message, hop_count, max_hops)
    /\ console' = after_loop(console)
    /\ pc' = "idle"
    /\ result' = "returned"
    /\ UNCHANGED <<setup, available, messages, current_agent, call, pm_locals,
                   chat_locals, stream_locals, invocations>>

\* one iteration up to the first suspension: route, then chat_stream up to
\* the agent's stream (or its RuntimeError, which process_message prints)
PMHop ==
    /\ pc = "pm_loop"
    /\ loop_condition(current_message, hop_count, max_hops)
    /\ hop_count' = hop_count + 1
    /\ pm_agent_type' = route(current_message)[1]
    /\ IF resolve(route(current_message)[1]) = None
       THEN /\ console' = Append(console, Ev("error", <<>>, "No agents available"))
            /\ pc' = after_error
            /\ result' = error_result
            /\ UNCHANGED <<messages, invocations, chat_locals, stream_locals>>
       ELSE /\ Invoke("chat_stream", current_message, None, hop_count + 1)
            /\ full_response' = <<>>
            /\ stage' = "body"
            /\ pc' = "stream"
            /\ UNCHANGED <<console, result>>
    /\ UNCHANGED <<setup, available, current_agent, call, current_message, max_hops>>

\* the agent's stream yields a fragment: chat_stream adds it to full_response
\* and yields it on, process_message adds it to response_text
StreamChunk(c) ==
    /\ pc = "stream"
    /\ \/ stage = "body" /\ c \in BodyChunks /\ stage' = "tail"
       \/ stage = "tail" /\ c \in TailChunks /\ stage' = "end"
    /\ full_response' = full_response \o c
    /\ UNCHANGED <<setup, available, messages, current_agent, pc, call, pm_locals,
                   chat_locals, console, result, invocations>>

\* the agent's stream ends: chat_stream's finally block runs; process_message
\* inspects the reply and hands off, bounces or stops
StreamEnd ==
    /\ pc = "stream"
    /\ messages' = stream_finally(messages)
    /\ current_agent' = agent_type
    /\ invocations' = SetOutcome("ok", full_response)
    /\ IF call = "process_message"
       THEN LET x     == extract_agent_command(full_response)
                shown == Append(console, Ev("panel", x.clean, agent_type))
            IN  IF x.found
                THEN /\ current_message' = x.command
                     /\ console' = shown
                     /\ pc' = "pm_loop"
                     /\ UNCHANGED result
                ELSE IF pm_agent_type \in {LOCAL_FAST, LOCAL_SPECIALIZED}
                THEN /\ current_message' = AutoBounce(x.clean)
                     /\ console' = shown
                     /\ pc' = "pm_loop"
                     /\ UNCHANGED result
                ELSE /\ console' = after_loop(shown)
                     /\ pc' = "idle"
                     /\ result' = "returned"
                     /\ UNCHANGED current_message
       ELSE /\ pc' = "idle"
            /\ result' = "returned"
            /\ UNCHANGED <<current_message, console>>
    /\ UNCHANGED <<setup, available, call, hop_count, max_hops, pm_agent_type,
                   chat_locals, stream_locals>>

\* the agent's stream raises: chat_stream logs and re-raises, its finally
\* block runs; process_message prints the error and returns
StreamRaise ==
    /\ pc = "stream"
    /\ messages' = stream_finally(messages)
    /\ current_agent' = agent_type
    /\ invocations' = SetOutcome("error", full_response)
    /\ IF call = "process_message"
       THEN /\ console' = Append(console, Ev("error", <<>>, "agent failed"))
            /\ pc' = after_error
            /\ result' = error_result
       ELSE /\ pc' = "idle"
            /\ result' = "raised"
            /\ UNCHANGED console
    /\ UNCHANGED <<setup, available, call, pm_locals, chat_locals, stream_locals>>

\* the consumer is cancelled while the stream is suspended (CancelledError,
\* or aclose): "except Exception" does not catch it, the finally block runs,
\* and the exception leaves process_message too
StreamCancel ==
    /\ pc = "stream"
    /\ messages' = stream_finally(messages)
    /\ current_agent' = agent_type
    /\ invocations' = SetOutcome("cancelled", full_response)
    /\ pc' = "idle"
    /\ result' = "cancelled"
    /\ UNCHANGED <<setup, available, call, pm_locals, chat_locals, stream_locals,
                   console>>

\* run_noninteractive(stream=True), or a caller of the API: chat_stream up to
\* the agent's stream, or its RuntimeError
ChatStreamCall(m, force) ==
    /\ pc = "idle"
    /\ call = "none"
    /\ call' = "chat_stream"
    /\ IF resolve(Routed(m, force)[1]) = None
       THEN /\ pc' = "idle"
            /\ result' = "no_agents"
            /\ UNCHANGED <<messages, invocations, chat_locals>>
       ELSE /\ Invoke("chat_stream", m, force, 0)
            /\ pc' = "stream"
            /\ result' = "running"
    /\ full_response' = <<>>
    /\ stage' = "body"
    /\ UNCHANGED <<setup, available, current_agent, pm_locals, console>>

\* run_noninteractive(stream=False), quick_chat: chat up to "await agent.chat",
\* or its RuntimeError
ChatCall(m, force) ==
    /\ pc = "idle"
    /\ call = "none"
    /\ call' = "chat"
    /\ IF resolve(Routed(m, force)[1]) = None
       THEN /\ pc' = "idle"
            /\ result' = "no_agents"
            /\ UNCHANGED <<messages, invocations, chat_locals>>
       ELSE /\ Invoke("chat", m, force, 0)
            /\ pc' = "chat"
            /\ result' = "running"
    /\ UNCHANGED <<setup, available, current_agent, pm_locals, stream_locals, console>>

\* agent.chat returns: the assistant turn is appended whatever the reply is
ChatReturn(response) ==
    /\ pc = "chat"
    /\ messages' = add_assistant_message(messages, max_history, response, agent_type)
    /\ current_agent' = agent_type
    /\ invocations' = SetOutcome("ok", response)
    /\ pc' = "idle"
    /\ result' = "returned"
    /\ UNCHANGED <<setup, available, call, pm_locals, chat_locals, stream_locals,
                   console>>

\* agent.chat raises: chat logs and re-raises
ChatRaise ==
    /\ pc = "chat"
    /\ invocations' = SetOutcome("error", <<>>)
    /\ pc' = "idle"
    /\ result' = "raised"
    /\ UNCHANGED <<setup, available, messages, current_agent, call, pm_locals,
                   chat_locals, stream_locals, console>>

Next ==
    \/ \E a \in AgentType : AgentDown(a)
    \/ \E m \in UserMessages, mh \in 0..MaxHops : ProcessMessage(m, mh)
    \/ PMExit
    \/ PMHop
    \/ \E c \in BodyChunks \cup TailChunks : StreamChunk(c)
    \/ StreamEnd
    \/ StreamRaise
    \/ StreamCancel
    \/ \E m \in UserMessages, force \in {None} \cup AgentType : ChatStreamCall(m, force)
    \/ \E m \in UserMessages, force \in {None} \cup AgentType : ChatCall(m, force)
    \/ \E response \in Replies : ChatReturn(response)
    \/ ChatRaise

Spec == Init /\ [][Next]_vars

\* the while loop takes its next iteration: the head of PMHop, and under Next
\* no other action adds one to hop_count
NextIteration ==
    /\ pc = "pm_loop"
    /\ loop_condition(current_message, hop_count, max_hops)
    /\ hop_count' = hop_count + 1

\* the consumer leaves "async for": under Next the steps that do are those of
\* StreamEnd, StreamRaise and StreamCancel, and each is enabled while pc = "stream"
StreamStops ==
    /\ pc = "stream"
    /\ pc' \in {"pm_loop", "idle"}

\* the event loop resumes process_message whenever it can run, an agent's
\* stream is finite (it ends, raises or is cancelled), and chat's await ends
LiveSpec ==
    /\ Spec
    /\ WF_hop_count(NextIteration)
    /\ WF_vars(PMExit)
    /\ WF_pc(StreamStops)
    /\ WF_vars((\E response \in Replies : ChatReturn(response)) \/ ChatRaise)

(***************************************************************************)
(* The conversation store on its own: ConversationManager's methods called *)
(* in any order by a client                                                *)
(***************************************************************************)
\* the largest max_history a ConversationManager is created with
MaxTurnLimit == 2

\* the client stops appending when the conversation holds this many turns
MaxTurns == 4

TurnLimits == 1..MaxTurnLimit

\* the instants the clock passes through
Clock == 0..1

Contents == {<<"a">>}

\* the **metadata of add_user_message: none, or chat's routing_reason
Metadata == {{}, {<<"routing_reason", "Senior Engineer">>}}

weaver == <<agents, available, current_agent, pc, call, pm_locals, chat_locals,
            stream_locals, console, result, invocations>>

\* Message.to_dict; JSON's null is "null"
to_dict(m) ==
    [role      |-> m.role,
     content   |-> m.content,
     agent     |-> IF m.agent # None THEN m.agent ELSE "null",
     timestamp |-> isoformat(m.timestamp),
     metadata  |-> m.metadata]

\* Message.from_dict: data.get gives None for a missing key; a missing, null
\* or empty agent gives None, a missing or empty timestamp gives
\* datetime.now(), missing metadata give {}
\* from_dict giving the epoch to a turn without timestamp
from_dict_epoch(data) ==
    [role      |-> data.role,
     content   |-> data.content,
     agent     |-> IF "agent" \in DOMAIN data /\ data.agent \notin {"null", ""}
                   THEN data.agent ELSE None,
     timestamp |-> IF "timestamp" \in DOMAIN data /\ data.timestamp # <<>>
                   THEN fromisoformat(data.timestamp) ELSE 0,
     metadata  |-> IF "metadata" \in DOMAIN data THEN data.metadata ELSE {}]

from_dict(data) ==
    [role      |-> data.role,
     content   |-> data.content,
     agent     |-> IF "agent" \in DOMAIN data /\ data.agent \notin {"null", ""}
                   THEN data.agent ELSE None,
     timestamp |-> IF "timestamp" \in DOMAIN data /\ data.timestamp # <<>>
                   THEN fromisoformat(data.timestamp) ELSE now,
     metadata  |-> IF "metadata" \in DOMAIN data THEN data.metadata ELSE {}]

\* what Message.from_dict raises: ValueError from AgentType(...) for a value
\* that is no agent type, KeyError for a missing role or content
from_dict_raises(data) ==
    IF "agent" \in DOMAIN data /\ data.agent \notin {"null", ""} \cup AgentType
    THEN "ValueError"
    ELSE IF ~({"role", "content"} \subseteq DOMAIN data) THEN "KeyError"
    ELSE "none"

\* ConversationManager.export_session: the JSON document written
export_session(sid, msgs) ==
    [session_id    |-> sid,
     exported_at   |-> isoformat(now),
     message_count |-> Len(msgs),
     messages      |-> [i \in 1..Len(msgs) |-> to_dict(msgs[i])]]

\* ConversationManager.import_session: cls() and then the file's session id and messages
import_session(data) ==
    LET records == IF "messages" \in DOMAIN data THEN data.messages ELSE <<>>
    IN  [session_id  |-> IF "session_id" \in DOMAIN data THEN data.session_id
                         ELSE strftime(now),
         messages    |-> [i \in 1..Len(records) |-> from_dict(records[i])],
         max_history |-> DefaultMaxHistory]

\* import_session on a file [kind, doc]: "absent" (read_text raises),
\* "invalid_json" (json.loads raises), "array" (a JSON list: data.get raises),
\* "object" (doc is the dict); the error that leaves the call, or "none"
import_session_raises(file) ==
    IF file.kind = "absent" THEN "FileNotFoundError"
    ELSE IF file.kind = "invalid_json" THEN "JSONDecodeError"
    ELSE IF file.kind = "array" THEN "AttributeError"
    ELSE LET records == IF "messages" \in DOMAIN file.doc THEN file.doc.messages ELSE <<>>
             failing == {i \in 1..Len(records) : from_dict_raises(records[i]) # "none"}
         IN  IF failing = {} THEN "none" ELSE from_dict_raises(records[MinOf(failing)])

\* get_context_for_agent works on self.messages.copy(): a list of its own
copy_is_alias == FALSE

copy_is_new_list == TRUE

\* self.messages when get_context_for_agent is over: the pops of the character
\* limit reach it only if the local list is the same object, which the message
\* limit's rebinding also ends
messages_after_context(msgs, max_messages, max_chars) ==
    IF copy_is_new_list \/ message_limit(msgs, max_messages) # msgs
    THEN msgs
    ELSE context_messages(msgs, max_messages, max_chars).messages

StoreInit ==
    /\ agents = <<CLAUDE_CODE>>
    /\ available = {CLAUDE_CODE}
    /\ messages = <<>>
    /\ max_history \in TurnLimits
    /\ current_agent = None
    /\ pc = "idle"
    /\ call = "none"
    /\ current_message = <<>>
    /\ hop_count = 0
    /\ max_hops = 0
    /\ pm_agent_type = None
    /\ message = <<>>
    /\ agent_type = None
    /\ full_response = <<>>
    /\ stage = "body"
    /\ console = <<>>
    /\ result = "none"
    /\ invocations = <<>>
    /\ now = 0
    /\ session_id = strftime(now)
    /\ exported = <<>>
    /\ imported = <<>>
    /\ forked = <<>>
    /\ arg = <<>>
    /\ ret = <<>>
    /\ router = Router(<<>>, CLAUDE_CODE)
    /\ NoNotepad
    /\ NoTasks

\* the sessions explored end with their exports, imports and context reads:
\* none of them changes the conversation, so the conversations reached are
\* those of every interleaving
StillWriting == exported = <<>> /\ ret = <<>>

\* time passes
Tick ==
    /\ StillWriting
    /\ now + 1 \in Clock
    /\ now' = now + 1
    /\ UNCHANGED <<weaver, messages, max_history, session_id, exported, imported,
                   forked, fn>>

AddUserMessage(content, metadata) ==
    /\ StillWriting
    /\ Len(messages) < MaxTurns
    /\ messages' = add_user_message(messages, max_history, content, metadata)
    /\ UNCHANGED <<weaver, max_history, store, fn>>

AddAssistantMessage(content, agent) ==
    /\ StillWriting
    /\ Len(messages) < MaxTurns
    /\ messages' = add_assistant_message(messages, max_history, content, agent)
    /\ UNCHANGED <<weaver, max_history, store, fn>>

AddSystemMessage(content) ==
    /\ StillWriting
    /\ Len(messages) < MaxTurns
    /\ messages' = add_system_message(messages, content)
    /\ UNCHANGED <<weaver, max_history, store, fn>>

Clear(keep_system) ==
    /\ StillWriting
    /\ messages' = clear(messages, keep_system)
    /\ UNCHANGED <<weaver, max_history, store, fn>>

ExportSession ==
    /\ exported = <<>>
    /\ exported' = <<export_session(session_id, messages)>>
    /\ UNCHANGED <<weaver, messages, max_history, session_id, now, imported, forked, fn>>

ImportSession ==
    /\ exported # <<>>
    /\ imported = <<>>
    /\ imported' = <<import_session(exported[1])>>
    /\ UNCHANGED <<weaver, messages, max_history, session_id, now, exported, forked, fn>>

\* get_context_for_agent(agent, max_messages, max_chars); hangs when the
\* character limit's loop does not end, and value is then never returned
GetContext(max_messages, max_chars) ==
    /\ ret = <<>>
    /\ arg' = <<max_messages, max_chars>>
    /\ LET c == context_messages(messages, max_messages, max_chars)
       IN  ret' = << [hangs |-> c.hangs,
                     value |-> [i \in 1..Len(c.messages) |->
                                   to_api_format(c.messages[i])]] >>
    /\ messages' = messages_after_context(messages, max_messages, max_chars)
    /\ UNCHANGED <<weaver, max_history, store, router, notepad, tasks>>

Append1 ==
    \/ \E content \in Contents, metadata \in Metadata : AddUserMessage(content, metadata)
    \/ \E content \in Contents, agent \in {CLAUDE_CODE, LOCAL_FAST} :
           AddAssistantMessage(content, agent)
    \/ \E content \in Contents : AddSystemMessage(content)

StoreNext ==
    \/ Tick
    \/ Append1
    \/ \E keep_system \in BOOLEAN : Clear(keep_system)
    \/ ExportSession
    \/ ImportSession
    \/ \E max_messages \in 0..MaxTurns, max_chars \in 0..2 :
           GetContext(max_messages, max_chars)

StoreSpec == StoreInit /\ [][StoreNext]_vars

(***************************************************************************)
(* fork(): the original conversation and its fork, each changed by a       *)
(* client.  Two conversations may hold the same list object; same_list     *)
(* says whether the fork's self.messages is the original's.                *)
(***************************************************************************)
\* the calls a client makes on a conversation
Calls ==
    {[method |-> "add_user_message"], [method |-> "add_assistant_message"],
     [method |-> "add_system_message"],
     [method |-> "clear", keep_system |-> TRUE],
     [method |-> "clear", keep_system |-> FALSE]}

\* fork builds forked.messages with a list comprehension: a new list of new
\* Message objects
fork_keeps_list == FALSE

fork_copies_list == TRUE

\* ConversationManager.fork
fork(sid, msgs, limit) ==
    [session_id  |-> sid \o <<"_fork_", Second(now)>>,
     messages    |-> [i \in 1..Len(msgs) |->
                         [role      |-> msgs[i].role,
                          content   |-> msgs[i].content,
                          agent     |-> msgs[i].agent,
                          timestamp |-> msgs[i].timestamp,
                          metadata  |-> msgs[i].metadata]],
     max_history |-> limit,
     same_list   |-> ~fork_copies_list]

\* the turns of the conversation the call is made on, afterwards
own_after(c, own, limit) ==
    IF c.method = "add_user_message" THEN add_user_message(own, limit, <<"a">>, {})
    ELSE IF c.method = "add_assistant_message"
    THEN add_assistant_message(own, limit, <<"a">>, CLAUDE_CODE)
    ELSE IF c.method = "add_system_message" THEN add_system_message(own, <<"a">>)
    ELSE clear(own, c.keep_system)

\* self.messages.append(msg) changes the list object in place, so the other
\* conversation sees the turn if it holds the same list
other_after(c, other, same_list) ==
    IF same_list /\ c.method = "add_user_message"
    THEN Append(other, Message("user", <<"a">>, None, {}))
    ELSE IF same_list /\ c.method = "add_assistant_message"
    THEN Append(other, Message("assistant", <<"a">>, CLAUDE_CODE, {}))
    ELSE IF same_list /\ c.method = "add_system_message"
    THEN Append(other, Message("system", <<"a">>, None, {}))
    ELSE other

\* _trim_history (when it trims) and clear assign a new list to self.messages
same_list_after(c, own, limit, same_list) ==
    /\ same_list
    /\ c.method # "clear"
    /\ c.method = "add_system_message" \/ Len(own) + 1 <= limit

ForkInit == StoreInit

Fork ==
    /\ forked = <<>>
    /\ forked' = <<fork(session_id, messages, max_history)>>
    /\ UNCHANGED <<weaver, messages, max_history, session_id, now, exported, imported, fn>>

\* a call on the original conversation
OnOriginal(c) ==
    /\ c.method = "clear" \/ Len(messages) < MaxTurns - 1
    /\ messages' = own_after(c, messages, max_history)
    /\ forked' =
           IF forked = <<>> THEN forked
           ELSE << [forked[1] EXCEPT
                      !.messages = other_after(c, @, forked[1].same_list),
                      !.same_list = same_list_after(c, messages, max_history, @)] >>
    /\ UNCHANGED <<weaver, max_history, session_id, now, exported, imported, fn>>

\* a call on the fork
OnFork(c) ==
    /\ forked # <<>>
    /\ c.method = "clear" \/ Len(forked[1].messages) < MaxTurns - 1
    /\ forked' =
           << [forked[1] EXCEPT
                 !.messages = own_after(c, @, forked[1].max_history),
                 !.same_list = same_list_after(c, forked[1].messages,
                                               forked[1].max_history, @)] >>
    /\ messages' = other_after(c, messages, forked[1].same_list)
    /\ UNCHANGED <<weaver, max_history, session_id, now, exported, imported, fn>>

ForkNext ==
    \/ Tick
    \/ Fork
    \/ \E c \in Calls : OnOriginal(c)
    \/ \E c \in Calls : OnFork(c)

ForkSpec == ForkInit /\ [][ForkNext]_vars

(***************************************************************************)
(* One session: the orchestrator's calls, and between them a client's      *)
(* calls on the conversation and on a fork of it                           *)
(***************************************************************************)
SessionInit ==
    /\ agents = <<CLAUDE_CODE, LOCAL_FAST>>
    /\ available = {CLAUDE_CODE, LOCAL_FAST}
    /\ messages = <<>>
    /\ max_history \in {MaxTurnLimit, DefaultMaxHistory}
    /\ current_agent = None
    /\ pc = "idle"
    /\ call = "none"
    /\ current_message = <<>>
    /\ hop_count = 0
    /\ max_hops = 0
    /\ pm_agent_type = None
    /\ message = <<>>
    /\ agent_type = None
    /\ full_response = <<>>
    /\ stage = "body"
    /\ console = <<>>
    /\ result = "none"
    /\ invocations = <<>>
    /\ now = 0
    /\ session_id = strftime(now)
    /\ exported = <<>>
    /\ imported = <<>>
    /\ forked = <<>>
    /\ arg = <<>>
    /\ ret = <<>>
    /\ router = Router(<<>>, CLAUDE_CODE)
    /\ NoNotepad
    /\ NoTasks

\* the client's calls on the conversation the orchestrator's call left: it
\* forks it and makes one call on the original or on the fork
Between ==
    /\ pc = "idle"
    /\ call # "none"
    /\ \/ Fork
       \/ /\ forked # <<>>
          /\ forked[1].messages = messages
          /\ \/ \E c \in Calls : OnOriginal(c)
             \/ \E c \in Calls : OnFork(c)

SessionNext == Next \/ Between

SessionSpec == SessionInit /\ [][SessionNext]_vars

(***************************************************************************)
(* The shared notepad on its own: one client makes the same calls on a     *)
(* store built when the probe failed and on one built when it succeeded,   *)
(* each over its own copy of the notes file                                *)
(***************************************************************************)
\* the most notes a store gets to hold
MaxNotes == 2

NoteContents == {<<"x">>, <<"y">>}

NoteTags == {<<>>, <<"user">>}

\* what the notes file holds at construction
FileContents ==
    {[kind |-> "absent", items |-> <<>>],
     [kind |-> "list", items |-> <<>>],
     [kind |-> "list",
      items |-> << [id |-> "a", content |-> <<"x">>, author |-> "claude",
                    created_at |-> <<0>>, tags |-> <<>>] >>],
     [kind |-> "list", items |-> << [id |-> "a", content |-> <<"x">>] >>],
     [kind |-> "list", items |-> << [content |-> <<"x">>] >>],
     [kind |-> "invalid_json", items |-> <<>>],
     [kind |-> "scalars", items |-> <<>>],
     [kind |-> "object", items |-> <<>>],
     [kind |-> "null", items |-> <<>>]}

NoteInit ==
    /\ agents = <<CLAUDE_CODE>>
    /\ available = {CLAUDE_CODE}
    /\ messages = <<>>
    /\ max_history = DefaultMaxHistory
    /\ current_agent = None
    /\ pc = "idle"
    /\ call = "none"
    /\ current_message = <<>>
    /\ hop_count = 0
    /\ max_hops = 0
    /\ pm_agent_type = None
    /\ message = <<>>
    /\ agent_type = None
    /\ full_response = <<>>
    /\ stage = "body"
    /\ console = <<>>
    /\ result = "none"
    /\ invocations = <<>>
    /\ now = 0
    /\ session_id = strftime(now)
    /\ exported = <<>>
    /\ imported = <<>>
    /\ forked = <<>>
    /\ arg = <<>>
    /\ ret = <<>>
    /\ router = Router(<<>>, CLAUDE_CODE)
    /\ memory = [w \in ProbeOutcomes |-> <<>>]
    /\ \E file \in FileContents : notes_file = [w \in ProbeOutcomes |-> file]
    /\ returned = [w \in ProbeOutcomes |-> NoCall]
    /\ journal = [w \in ProbeOutcomes |-> [id \in NoteIds \cup Uuids |-> NoEntry]]
    /\ NoTasks

\* the rest of the program during the notepad's calls
beside_notepad == <<weaver, messages, max_history, store, arg, ret, router, tasks>>

\* the stores that were built
Built == {w \in ProbeOutcomes : memory[w] # <<>>}

\* WeaverMemory(author="weaver"), for both outcomes of the probe
Construct ==
    /\ \A w \in ProbeOutcomes : returned[w].op = "none"
    /\ memory' = [w \in ProbeOutcomes |-> WeaverMemory("weaver", w, notes_file[w]).self]
    /\ returned' = [w \in ProbeOutcomes |->
                       [op |-> "init", arg |-> <<>>,
                        value |-> WeaverMemory("weaver", w, notes_file[w]).raised]]
    /\ UNCHANGED <<beside_notepad, notes_file, journal>>

\* write_shared(content, note_id, tags); uuid is what uuid4 draws, taken to
\* differ from the ids in the store
WriteShared(content, note_id, tags, uuid) ==
    /\ Built # {}
    /\ \A w \in Built :
           /\ Len(memory[w][1].notes) < MaxNotes
           /\ \A i \in 1..Len(memory[w][1].notes) : memory[w][1].notes[i].id # uuid
    /\ memory' = [w \in ProbeOutcomes |->
                     IF w \in Built
                     THEN <<write_shared(memory[w][1], content, note_id, tags, uuid).self>>
                     ELSE memory[w]]
    /\ notes_file' = [w \in ProbeOutcomes |->
                         IF w \in Built
                         THEN write_shared(memory[w][1], content, note_id, tags, uuid).file
                         ELSE notes_file[w]]
    /\ returned' = [w \in ProbeOutcomes |->
                       IF w \in Built
                       THEN [op |-> "write", arg |-> content,
                             value |-> write_shared(memory[w][1], content, note_id, tags, uuid).value]
                       ELSE returned[w]]
    /\ journal' = [w \in ProbeOutcomes |->
                      IF w \in Built
                      THEN [journal[w] EXCEPT
                              ![write_shared(memory[w][1], content, note_id, tags, uuid).value] =
                                  [op |-> "write", content |-> content]]
                      ELSE journal[w]]
    /\ UNCHANGED beside_notepad

\* read_shared(note_id)
ReadShared(note_id) ==
    /\ Built # {}
    /\ returned' = [w \in ProbeOutcomes |->
                       IF w \in Built
                       THEN [op |-> "read", arg |-> note_id,
                             value |-> read_shared(memory[w][1], note_id)]
                       ELSE returned[w]]
    /\ UNCHANGED <<beside_notepad, memory, notes_file, journal>>

\* list_shared(tags, author, limit)
ListShared(tags, author, limit) ==
    /\ Built # {}
    /\ returned' = [w \in ProbeOutcomes |->
                       IF w \in Built
                       THEN [op |-> "list", arg |-> <<tags, author, limit>>,
                             value |-> list_shared(memory[w][1], tags, author, limit)]
                       ELSE returned[w]]
    /\ UNCHANGED <<beside_notepad, memory, notes_file, journal>>

\* delete_shared(note_id)
DeleteShared(note_id) ==
    /\ Built # {}
    /\ memory' = [w \in ProbeOutcomes |->
                     IF w \in Built
                     THEN <<delete_shared(memory[w][1], notes_file[w], note_id).self>>
                     ELSE memory[w]]
    /\ notes_file' = [w \in ProbeOutcomes |->
                         IF w \in Built
                         THEN delete_shared(memory[w][1], notes_file[w], note_id).file
                         ELSE notes_file[w]]
    /\ returned' = [w \in ProbeOutcomes |->
                       IF w \in Built
                       THEN [op |-> "delete", arg |-> note_id,
                             value |-> delete_shared(memory[w][1], notes_file[w], note_id).value]
                       ELSE returned[w]]
    /\ journal' = [w \in ProbeOutcomes |->
                      IF w \in Built /\ delete_shared(memory[w][1], notes_file[w], note_id).value
                      THEN [journal[w] EXCEPT ![note_id] = [op |-> "delete", content |-> <<>>]]
                      ELSE journal[w]]
    /\ UNCHANGED beside_notepad

NoteNext ==
    \/ Construct
    \/ \E content \in NoteContents, note_id \in {None} \cup NoteIds, tags \in NoteTags,
          uuid \in Uuids : WriteShared(content, note_id, tags, uuid)
    \/ \E note_id \in NoteIds \cup Uuids : ReadShared(note_id)
    \/ \E tags \in NoteTags, author \in {None, "claude"}, limit \in {1, 20} :
           ListShared(tags, author, limit)
    \/ \E note_id \in NoteIds \cup Uuids : DeleteShared(note_id)

NoteSpec == NoteInit /\ [][NoteNext]_vars

(***************************************************************************)
(* import_session applied to session files, complete and damaged           *)
(***************************************************************************)
\* a dict without some of its keys
Without(dict, keys) == [k \in (DOMAIN dict) \ keys |-> dict[k]]

\* turn records as to_dict writes them, and the same with keys left out
TurnRecords ==
    {Without(to_dict([role |-> "assistant", content |-> <<"a">>, agent |-> agent,
                      timestamp |-> t, metadata |-> {}]), keys) :
        agent \in {None, CLAUDE_CODE}, t \in Clock,
        keys \in SUBSET {"role", "content", "agent", "timestamp", "metadata"}}

SessionFiles ==
    {[kind |-> kind, doc |-> [session_id |-> <<0>>]] :
        kind \in {"absent", "invalid_json", "array", "object"}}
    \cup {[kind |-> "object", doc |-> [messages |-> <<turn>>]] : turn \in TurnRecords}
    \cup {[kind |-> "object",
           doc  |-> [session_id |-> <<0>>, messages |-> <<to_dict(Message("user", <<"a">>, None, {})), turn>>]] :
             turn \in TurnRecords}

ImportInit ==
    /\ agents = <<CLAUDE_CODE>>
    /\ available = {CLAUDE_CODE}
    /\ messages = <<>>
    /\ max_history = DefaultMaxHistory
    /\ current_agent = None
    /\ pc = "idle"
    /\ call = "none"
    /\ current_message = <<>>
    /\ hop_count = 0
    /\ max_hops = 0
    /\ pm_agent_type = None
    /\ message = <<>>
    /\ agent_type = None
    /\ full_response = <<>>
    /\ stage = "body"
    /\ console = <<>>
    /\ result = "none"
    /\ invocations = <<>>
    /\ now = 0
    /\ session_id = strftime(now)
    /\ exported = <<>>
    /\ imported = <<>>
    /\ forked = <<>>
    /\ arg \in SessionFiles
    /\ ret = <<>>
    /\ router = Router(<<>>, CLAUDE_CODE)
    /\ NoNotepad
    /\ NoTasks

\* time passes before the import
Later ==
    /\ ret = <<>>
    /\ now + 1 \in Clock
    /\ now' = now + 1
    /\ UNCHANGED <<weaver, messages, max_history, session_id, exported, imported,
                   forked, fn>>

\* ConversationManager.import_session(path), the file at path being arg
ImportFile ==
    /\ ret = <<>>
    /\ ret' = <<[op |-> "import", raised |-> import_session_raises(arg)]>>
    /\ imported' = IF import_session_raises(arg) = "none"
                   THEN <<import_session(arg.doc)>> ELSE <<>>
    /\ UNCHANGED <<weaver, messages, max_history, session_id, now, exported, forked,
                   arg, router, notepad, tasks>>

ImportNext == Later \/ ImportFile

ImportSpec == ImportInit /\ [][ImportNext]_vars

(***************************************************************************)
(* chat and chat_stream called by concurrently running asyncio tasks on    *)
(* one Weaver.  A coroutine runs without interruption from one await to    *)
(* the next; the awaits are agent.chat and the agent's stream.             *)
(***************************************************************************)
TaskMessages == {<<"a">>, <<"SP", "/LOCAL", "SP", "a">>}

ConcurrentInit ==
    /\ agents = <<CLAUDE_CODE, LOCAL_FAST>>
    /\ available \in {{CLAUDE_CODE, LOCAL_FAST}, {CLAUDE_CODE}}
    /\ messages = <<>>
    /\ max_history = DefaultMaxHistory
    /\ current_agent = None
    /\ pc = "idle"
    /\ call = "none"
    /\ current_message = <<>>
    /\ hop_count = 0
    /\ max_hops = 0
    /\ pm_agent_type = None
    /\ message = <<>>
    /\ agent_type = None
    /\ full_response = <<>>
    /\ stage = "body"
    /\ console = <<>>
    /\ result = "none"
    /\ invocations = <<>>
    /\ now = 0
    /\ session_id = strftime(now)
    /\ exported = <<>>
    /\ imported = <<>>
    /\ forked = <<>>
    /\ arg = <<>>
    /\ ret = <<>>
    /\ router = Router(<<>>, CLAUDE_CODE)
    /\ NoNotepad
    /\ NoTasks

\* what the tasks' steps leave alone
beside_tasks ==
    <<agents, available, max_history, pc, call, pm_locals, stream_locals, console,
      result, store, arg, ret, router, notepad>>

\* task t calls chat or chat_stream; the coroutine runs to its await: the user
\* turn is appended, the window built and the agent's call begun
TaskCall(t, kind, m) ==
    /\ tasks[t].pc = "ready"
    /\ resolve(Routed(m, None)[1]) # None
    /\ Invoke(kind, m, None, 0)
    /\ tasks' = [tasks EXCEPT ![t] =
                    [pc |-> "awaiting", kind |-> kind, message |-> m,
                     agent_type |-> agent_type', full_response |-> <<>>,
                     invocation |-> Len(invocations'), user_turn |-> Len(messages'),
                     assistant_turn |-> 0]]
    /\ UNCHANGED <<beside_tasks, current_agent>>

\* agent.chat returns to task t: the assistant turn is appended
TaskChatReturn(t, response) ==
    /\ tasks[t].pc = "awaiting"
    /\ tasks[t].kind = "chat"
    /\ messages' = add_assistant_message(messages, max_history, response, tasks[t].agent_type)
    /\ current_agent' = tasks[t].agent_type
    /\ invocations' = [invocations EXCEPT ![tasks[t].invocation].outcome = "ok",
                                          ![tasks[t].invocation].response = response]
    /\ tasks' = [tasks EXCEPT ![t].pc = "done", ![t].assistant_turn = Len(messages')]
    /\ UNCHANGED <<beside_tasks, chat_locals>>

\* the agent's stream gives task t a fragment
TaskStreamChunk(t, c) ==
    /\ tasks[t].pc = "awaiting"
    /\ tasks[t].kind = "chat_stream"
    /\ tasks[t].full_response = <<>>
    /\ tasks' = [tasks EXCEPT ![t].full_response = c]
    /\ UNCHANGED <<beside_tasks, messages, current_agent, invocations, chat_locals>>

\* the stream of task t ends or raises: the finally block saves full_response
TaskStreamEnd(t, outcome) ==
    /\ tasks[t].pc = "awaiting"
    /\ tasks[t].kind = "chat_stream"
    /\ messages' = IF tasks[t].full_response # <<>>
                   THEN add_assistant_message(messages, max_history,
                                              tasks[t].full_response, tasks[t].agent_type)
                   ELSE messages
    /\ current_agent' = tasks[t].agent_type
    /\ invocations' = [invocations EXCEPT
                          ![tasks[t].invocation].outcome = outcome,
                          ![tasks[t].invocation].response = tasks[t].full_response]
    /\ tasks' = [tasks EXCEPT
                    ![t].pc = "done",
                    ![t].assistant_turn =
                        IF tasks[t].full_response # <<>> THEN Len(messages') ELSE 0]
    /\ UNCHANGED <<beside_tasks, chat_locals>>

\* agent.chat raises in task t: chat re-raises, nothing is appended
TaskChatRaise(t) ==
    /\ tasks[t].pc = "awaiting"
    /\ tasks[t].kind = "chat"
    /\ invocations' = [invocations EXCEPT ![tasks[t].invocation].outcome = "error"]
    /\ tasks' = [tasks EXCEPT ![t].pc = "done"]
    /\ UNCHANGED <<beside_tasks, messages, current_agent, chat_locals>>

ConcurrentNext ==
    \/ \E t \in Tasks, kind \in {"chat", "chat_stream"}, m \in TaskMessages : TaskCall(t, kind, m)
    \/ \E t \in Tasks, response \in Replies : TaskChatReturn(t, response)
    \/ \E t \in Tasks, c \in BodyChunks : TaskStreamChunk(t, c)
    \/ \E t \in Tasks, outcome \in {"ok", "error"} : TaskStreamEnd(t, outcome)
    \/ \E t \in Tasks : TaskChatRaise(t)

ConcurrentSpec == ConcurrentInit /\ [][ConcurrentNext]_vars

(***************************************************************************)
(* Router.route and extract_agent_command applied to every short text      *)
(***************************************************************************)
\* the longest text given to the functions
MaxTextLen == 4

Alphabet == {"a", "SP", "NL", "/claude", "/local", "/senior", "/junior", "/LOCAL"}

\* the texts of length n
TextsOfLen(n) == [1..n -> Alphabet]

Texts == UNION {TextsOfLen(n) : n \in 0..MaxTextLen}

\* ConversationManager.get_context_summary (last_user_message left out)
get_context_summary(msgs) ==
    IF msgs = <<>>
    THEN [message_count |-> 0, agents_used |-> {}, last_agent |-> None]
    ELSE LET assistants == {i \in 1..Len(msgs) : msgs[i].role = "assistant"}
         IN  [message_count |-> Len(msgs),
              agents_used   |-> {msgs[i].agent : i \in 1..Len(msgs)} \ {None},
              last_agent    |-> IF assistants = {} THEN None
                                ELSE msgs[MaxOf(assistants)].agent]

\* the summaries of an empty conversation, of one the senior answered and of
\* one the junior answered last
Summaries ==
    {get_context_summary(<<>>),
     get_context_summary(<<Message("user", <<"a">>, None, {}),
                           Message("assistant", <<"a">>, CLAUDE_CODE, {})>>),
     get_context_summary(<<Message("user", <<"a">>, None, {}),
                           Message("assistant", <<"a">>, LOCAL_FAST, {})>>)}

\* the rules lists given to Router(...)
RuleSets ==
    {<<>>, <<[pattern |-> "a", agent |-> LOCAL_FAST, priority |-> 0, description |-> ""]>>}

TextInit ==
    /\ agents = <<CLAUDE_CODE>>
    /\ available = {CLAUDE_CODE}
    /\ messages = <<>>
    /\ max_history = DefaultMaxHistory
    /\ current_agent = None
    /\ pc = "idle"
    /\ call = "none"
    /\ current_message = <<>>
    /\ hop_count = 0
    /\ max_hops = 0
    /\ pm_agent_type = None
    /\ message = <<>>
    /\ agent_type = None
    /\ full_response = <<>>
    /\ stage = "body"
    /\ console = <<>>
    /\ result = "none"
    /\ invocations = <<>>
    /\ now = 0
    /\ session_id = strftime(now)
    /\ exported = <<>>
    /\ imported = <<>>
    /\ forked = <<>>
    /\ arg \in Texts
    /\ ret = <<>>
    /\ router \in {Router(rules, default) : rules \in RuleSets, default \in AgentType}
    /\ NoNotepad
    /\ NoTasks

\* self.router.route(arg, context)
Route(context) ==
    /\ ret = <<>>
    /\ ret' = <<[op |-> "route", value |-> Router_route(router, arg, context)]>>
    /\ UNCHANGED <<weaver, messages, max_history, store, arg, router, notepad, tasks>>

\* extract_agent_command(arg)
Extract ==
    /\ ret = <<>>
    /\ ret' = <<[op |-> "extract", value |-> extract_agent_command(arg)]>>
    /\ UNCHANGED <<weaver, messages, max_history, store, arg, router, notepad, tasks>>

TextNext ==
    \/ \E context \in Summaries : Route(context)
    \/ Extract

TextSpec == TextInit /\ [][TextNext]_vars

(***************************************************************************)
(* The conversation as a log: a client appends turns, the k-th of them k   *)
(* characters long, so that a turn's length tells when it was appended.    *)
(* The conversation may be exported and restored; the client then makes    *)
(* every append on the original and on the restored conversation.          *)
(***************************************************************************)
\* the largest max_history of a logged conversation
MaxLogLimit == 3

\* the appends the client makes
MaxAppends == 4

\* the record of a call on the log: the turns before it, and what it returned
Called(op, n, value) == [op |-> op, n |-> n, value |-> value, before |-> messages]

LogInit ==
    /\ agents = <<CLAUDE_CODE>>
    /\ available = {CLAUDE_CODE}
    /\ messages = <<>>
    /\ max_history \in 1..MaxLogLimit
    /\ current_agent = None
    /\ pc = "idle"
    /\ call = "none"
    /\ current_message = <<>>
    /\ hop_count = 0
    /\ max_hops = 0
    /\ pm_agent_type = None
    /\ message = <<>>
    /\ agent_type = None
    /\ full_response = <<>>
    /\ stage = "body"
    /\ console = <<>>
    /\ result = "none"
    /\ invocations = <<>>
    /\ now = 0
    /\ session_id = strftime(now)
    /\ exported = <<>>
    /\ imported = <<>>
    /\ forked = <<>>
    /\ arg = <<>>
    /\ ret = <<>>
    /\ router = Router(<<>>, CLAUDE_CODE)
    /\ NoNotepad
    /\ NoTasks

\* conversation.<method>(content) on a conversation of the given turns and limit
appended(method, msgs, limit, content) ==
    IF method = "add_user_message" THEN add_user_message(msgs, limit, content, {})
    ELSE IF method = "add_assistant_message"
    THEN add_assistant_message(msgs, limit, content, CLAUDE_CODE)
    ELSE add_system_message(msgs, content)

\* the client appends a turn, one character longer than the last, to the
\* conversation and to the restored one; arg is the content
LogAppend(method) ==
    /\ Len(arg) < MaxAppends
    /\ exported = <<>> \/ imported # <<>>
    /\ arg' = Append(arg, "a")
    /\ messages' = appended(method, messages, max_history, arg')
    /\ imported' =
           IF imported = <<>> THEN imported
           ELSE << [imported[1] EXCEPT
                      !.messages = appended(method, @, imported[1].max_history, arg')] >>
    /\ ret' = <<Called(method, 0, <<>>)>>
    /\ UNCHANGED <<weaver, max_history, session_id, now, exported, forked, router,
                   notepad, tasks>>

\* get_last_n_messages(n): a slice or a copy, the conversation is not written
GetLastN(n) ==
    /\ ret' = <<Called("get_last_n_messages", n, get_last_n_messages(messages, n))>>
    /\ UNCHANGED <<weaver, messages, max_history, store, arg, router, notepad, tasks>>

LogNext ==
    \/ \E method \in {"add_user_message", "add_assistant_message", "add_system_message"} :
           LogAppend(method)
    \/ \E n \in 0..(MaxAppends + 1) : GetLastN(n)
    \/ ExportSession
    \/ ImportSession

LogSpec == LogInit /\ [][LogNext]_vars

(***************************************************************************)
(* chat and chat_stream on a conversation a client has prepared: the       *)
(* Weaver is built over a ConversationManager of a small turn limit, and   *)
(* the client appends and clears turns before the orchestrator's call      *)
(***************************************************************************)
PreparedInit ==
    /\ agents = <<CLAUDE_CODE, LOCAL_FAST>>
    /\ available = {CLAUDE_CODE, LOCAL_FAST}
    /\ messages = <<>>
    /\ max_history \in TurnLimits
    /\ current_agent = None
    /\ pc = "idle"
    /\ call = "none"
    /\ current_message = <<>>
    /\ hop_count = 0
    /\ max_hops = 0
    /\ pm_agent_type = None
    /\ message = <<>>
    /\ agent_type = None
    /\ full_response = <<>>
    /\ stage = "body"
    /\ console = <<>>
    /\ result = "none"
    /\ invocations = <<>>
    /\ now = 0
    /\ session_id = strftime(now)
    /\ exported = <<>>
    /\ imported = <<>>
    /\ forked = <<>>
    /\ arg = <<>>
    /\ ret = <<>>
    /\ router = Router(<<>>, CLAUDE_CODE)
    /\ NoNotepad
    /\ NoTasks

\* a call of the client on orch.conversation before the orchestrator's call
Prepare(c) ==
    /\ pc = "idle"
    /\ call = "none"
    /\ OnOriginal(c)

PreparedNext ==
    \/ \E c \in Calls : Prepare(c)
    \/ \E m \in UserMessages, force \in {None} \cup AgentType : ChatStreamCall(m, force)
    \/ \E m \in UserMessages, force \in {None} \cup AgentType : ChatCall(m, force)
    \/ \E c \in BodyChunks \cup TailChunks : StreamChunk(c)
    \/ StreamEnd
    \/ StreamRaise
    \/ StreamCancel
    \/ \E response \in Replies : ChatReturn(response)
    \/ ChatRaise

PreparedSpec == PreparedInit /\ [][PreparedNext]_vars

(***************************************************************************)
(* Two notepad stores over one local notes file: the orchestrator's        *)
(* WeaverMemory(author="orchestrator") and the MCP server's                *)
(* WeaverMemory(author="claude"), each in its own process, both with the   *)
(* probe failed.  Here memory and returned are per store, notes_file and   *)
(* journal per path.                                                       *)
(***************************************************************************)
Instances == {"orchestrator", "claude"}

SHARED_NOTES_FILE == "shared_notes.json"

\* what the shared file holds when the first store is built
SharedFiles ==
    {[kind |-> "absent", items |-> <<>>],
     [kind |-> "list",
      items |-> << [id |-> "a", content |-> <<"x">>, author |-> "claude",
                    created_at |-> <<0>>, tags |-> <<>>] >>]}

SharedInit ==
    /\ agents = <<CLAUDE_CODE>>
    /\ available = {CLAUDE_CODE}
    /\ messages = <<>>
    /\ max_history = DefaultMaxHistory
    /\ current_agent = None
    /\ pc = "idle"
    /\ call = "none"
    /\ current_message = <<>>
    /\ hop_count = 0
    /\ max_hops = 0
    /\ pm_agent_type = None
    /\ message = <<>>
    /\ agent_type = None
    /\ full_response = <<>>
    /\ stage = "body"
    /\ console = <<>>
    /\ result = "none"
    /\ invocations = <<>>
    /\ now = 0
    /\ session_id = strftime(now)
    /\ exported = <<>>
    /\ imported = <<>>
    /\ forked = <<>>
    /\ arg = <<>>
    /\ ret = <<>>
    /\ router = Router(<<>>, CLAUDE_CODE)
    /\ memory = [i \in Instances |-> <<>>]
    /\ \E file \in SharedFiles : notes_file = [p \in {SHARED_NOTES_FILE} |-> file]
    /\ returned = [i \in Instances |-> NoCall]
    /\ journal = [p \in {SHARED_NOTES_FILE} |-> [id \in NoteIds \cup Uuids |-> NoEntry]]
    /\ NoTasks

\* the ids in the shared file
FileIds ==
    {notes_file[SHARED_NOTES_FILE].items[k].id :
        k \in 1..Len(notes_file[SHARED_NOTES_FILE].items)}

\* process i builds its store: WeaverMemory(author=i) loads the shared file
SharedConstruct(i) ==
    /\ memory[i] = <<>>
    /\ memory' = [memory EXCEPT
                     ![i] = WeaverMemory(i, FALSE, notes_file[SHARED_NOTES_FILE]).self]
    /\ returned' = [returned EXCEPT
                       ![i] = [op |-> "init", arg |-> <<>>,
                               value |-> WeaverMemory(i, FALSE,
                                             notes_file[SHARED_NOTES_FILE]).raised]]
    /\ UNCHANGED <<beside_notepad, notes_file, journal>>

\* store i: write_shared(content, note_id); uuid is what uuid4 draws, taken
\* to differ from every id in use
SharedWrite(i, content, note_id, uuid) ==
    /\ memory[i] # <<>>
    /\ Len(memory[i][1].notes) < MaxNotes
    /\ uuid \notin FileIds
    /\ \A k \in 1..Len(memory[i][1].notes) : memory[i][1].notes[k].id # uuid
    /\ LET done == write_shared(memory[i][1], content, note_id, <<>>, uuid)
       IN  /\ memory' = [memory EXCEPT ![i] = <<done.self>>]
           /\ notes_file' = [notes_file EXCEPT ![SHARED_NOTES_FILE] = done.file]
           /\ returned' = [returned EXCEPT
                              ![i] = [op |-> "write", arg |-> content, value |-> done.value]]
           /\ journal' = [journal EXCEPT
                             ![SHARED_NOTES_FILE][done.value] =
                                 [op |-> "write", content |-> content]]
    /\ UNCHANGED beside_notepad

\* store i: delete_shared(note_id)
SharedDelete(i, note_id) ==
    /\ memory[i] # <<>>
    /\ LET done == delete_shared(memory[i][1], notes_file[SHARED_NOTES_FILE], note_id)
       IN  /\ memory' = [memory EXCEPT ![i] = <<done.self>>]
           /\ notes_file' = [notes_file EXCEPT ![SHARED_NOTES_FILE] = done.file]
           /\ returned' = [returned EXCEPT
                              ![i] = [op |-> "delete", arg |-> note_id, value |-> done.value]]
           /\ journal' = IF done.value
                         THEN [journal EXCEPT
                                 ![SHARED_NOTES_FILE][note_id] =
                                     [op |-> "delete", content |-> <<>>]]
                         ELSE journal
    /\ UNCHANGED beside_notepad

SharedNext ==
    \/ \E i \in Instances : SharedConstruct(i)
    \/ \E i \in Instances, content \in NoteContents, note_id \in {None} \cup NoteIds,
          uuid \in Uuids : SharedWrite(i, content, note_id, uuid)
    \/ \E i \in Instances, note_id \in NoteIds \cup Uuids : SharedDelete(i, note_id)

SharedSpec == SharedInit /\ [][SharedNext]_vars

(***************************************************************************)
(* Properties                                                              *)
(***************************************************************************)
Last(s) == s[Len(s)]

UserPositions == {i \in 1..Len(messages) : messages[i].role = "user"}

\* the user turn of the k-th invocation (nothing is trimmed below max_history)
UserTurnOf(k) ==
    CHOOSE i \in UserPositions : Cardinality({j \in UserPositions : j <= i}) = k

\* the user turn of the k-th invocation is directly followed by an assistant turn
HasAssistantTurn(k) ==
    LET u == UserTurnOf(k)
    IN  u < Len(messages) /\ messages[u + 1].role = "assistant"

AssistantTurns == SelectSeq(messages, LAMBDA m : m.role = "assistant")

Printed(kind) == \E i \in 1..Len(console) : console[i].kind = kind

Finished == call = "process_message" /\ pc = "idle" /\ result = "returned"

\* the run's last hop was a reply of the senior agent, routed to it, without a directive
NaturalStop ==
    /\ Len(invocations) >= 1
    /\ Last(invocations).hop = hop_count
    /\ Last(invocations).outcome = "ok"
    /\ Last(invocations).requested = CLAUDE_CODE
    /\ Last(invocations).agent = CLAUDE_CODE
    /\ ~extract_agent_command(Last(invocations).response).found

\* the run's last hop left a message for a next hop
HandoffPending ==
    /\ Len(invocations) >= 1
    /\ Last(invocations).hop = hop_count
    /\ Last(invocations).outcome = "ok"
    /\ ~NaturalStop
    /\ current_message # <<>>

C1_HopBound ==
    call = "process_message" =>
        /\ Len(invocations) <= hop_count
        /\ hop_count <= max_hops

\* C1: process_message invokes an agent at most max_hops times (each invocation
\* is one loop iteration, counted by hop_count, which never exceeds max_hops),
\* and every run of process_message returns.
C1_BoundedHopsAndReturn ==
    /\ [](C1_HopBound)
    /\ (call = "process_message") ~>
           (pc = "idle" /\ result # "running" /\ Len(invocations) <= max_hops)

\* C1 witness: a run the bound cut while a handoff was pending, after two or more hops
C1_Witness ==
    /\ Finished
    /\ max_hops >= 2
    /\ Len(invocations) = max_hops
    /\ HandoffPending

\* C2: a finished run has reported "max hops" exactly when the hop count
\* reached the bound without a natural stop: never after a natural stop, always
\* when the bound is reached with a handoff pending.
C2_MaxHopsIffNoNaturalStop ==
    Finished =>
        /\ NaturalStop => ~Printed("max_hops")
        /\ (HandoffPending /\ hop_count >= max_hops) => Printed("max_hops")
        /\ Printed("max_hops") => (hop_count >= max_hops /\ ~NaturalStop)

\* C3: every invocation has appended exactly one user turn, and every
\* invocation that completed without error exactly one assistant turn, which
\* follows its user turn, whatever the reply was.
C3_OneUserOneAssistantPerHop ==
    /\ Cardinality(UserPositions) = Len(invocations)
    /\ \A k \in 1..Len(invocations) :
           invocations[k].outcome = "ok" =>
               /\ HasAssistantTurn(k)
               /\ UserTurnOf(k) + 2 <= Len(messages)
                      => messages[UserTurnOf(k) + 2].role # "assistant"

\* C4: when a hop has ended with its user turn appended and no assistant turn,
\* an error has been surfaced: printed by process_message, or raised to the caller.
C4_NoSilentOrphan ==
    \A k \in 1..Len(invocations) :
        (invocations[k].outcome # "pending" /\ ~HasAssistantTurn(k)) =>
            \/ Printed("error")
            \/ result \in {"raised", "cancelled"}

\* C5: a stream that ended abnormally (the agent raised, or the consumer was
\* cancelled) after yielding fragments has no assistant turn for its hop.
C5_NoPartialCommit ==
    \A k \in 1..Len(invocations) :
        ( /\ invocations[k].kind = "chat_stream"
          /\ invocations[k].outcome \in {"error", "cancelled"}
          /\ invocations[k].response # <<>> ) => ~HasAssistantTurn(k)

\* C6: when an agent invocation fails during a hop of process_message, that
\* hop is the last one (no retry, no further hop), nothing is displayed for it,
\* the error is the last thing printed and process_message has returned.
C6_FailureEndsRun ==
    call = "process_message" =>
        \A k \in 1..Len(invocations) :
            invocations[k].outcome = "error" =>
                /\ k = Len(invocations)
                /\ hop_count = invocations[k].hop
                /\ pc = "idle"
                /\ result = "returned"
                /\ Len(console) = k
                /\ Last(console).kind = "error"
                /\ \A i \in 1..(k - 1) : console[i].kind = "panel"

\* C6 witness: the agent failed on a second or later hop, with hops left
C6_Witness ==
    /\ call = "process_message"
    /\ Len(invocations) >= 2
    /\ Last(invocations).outcome = "error"
    /\ hop_count < max_hops

\* C7: when a hop of process_message completes with a reply that carries no
\* directive, the reply is bounced to the senior agent exactly when a junior
\* agent produced it, and the run stops exactly when the senior agent produced it.
C7_BounceFollowsProducer ==
    [][ ( /\ call = "process_message"
          /\ pc = "stream"
          /\ pc' # "stream"
          /\ Last(invocations').outcome = "ok"
          /\ ~extract_agent_command(full_response).found )
        => /\ agent_type \in {LOCAL_FAST, LOCAL_SPECIALIZED}
                <=> (pc' = "pm_loop" /\ current_message' = AutoBounce(full_response))
           /\ agent_type = CLAUDE_CODE
                <=> (pc' = "idle" /\ result' = "returned") ]_vars

\* every hop ran with both agents available and completed without error
BothUpAllHops ==
    \A k \in 1..Len(invocations) :
        /\ {CLAUDE_CODE, LOCAL_FAST} \subseteq invocations[k].up
        /\ invocations[k].outcome = "ok"

\* the reply of hop k carries a directive that routes to the junior agent
JuniorDirective(k) ==
    /\ extract_agent_command(invocations[k].response).found
    /\ route(extract_agent_command(invocations[k].response).command)[1] = LOCAL_FAST

NoDirective(k) == ~extract_agent_command(invocations[k].response).found

\* C8: both agents available, max_hops >= 3, the senior reply to the initial
\* message ends with a junior directive, the junior reply has no directive and
\* neither has the senior's hop-3 reply: the finished run made exactly three hops,
\* senior, junior, senior, hop 2 on the directive and hop 3 on the bounced junior
\* output, and recorded three assistant turns attributed senior, junior, senior.
C8_DelegateAndReview ==
    ( /\ Finished
      /\ max_hops >= 3
      /\ BothUpAllHops
      /\ {CLAUDE_CODE, LOCAL_FAST} \subseteq available
      /\ Len(invocations) >= 2
      /\ invocations[1].agent = CLAUDE_CODE
      /\ JuniorDirective(1)
      /\ NoDirective(2)
      /\ Len(invocations) >= 3 => NoDirective(3) )
    => /\ Len(invocations) = 3
       /\ hop_count = 3
       /\ [k \in 1..3 |-> invocations[k].agent]
              = <<CLAUDE_CODE, LOCAL_FAST, CLAUDE_CODE>>
       /\ invocations[2].message
              = extract_agent_command(invocations[1].response).command
       /\ invocations[3].message = AutoBounce(invocations[2].response)
       /\ [k \in 1..Len(AssistantTurns) |-> AssistantTurns[k].agent]
              = <<CLAUDE_CODE, LOCAL_FAST, CLAUDE_CODE>>

\* C9: the message does not start with a junior token, the senior agent is
\* available and its reply carries no directive: the finished run made exactly
\* one hop, and the conversation holds the user turn and one assistant turn
\* attributed to the senior agent.
C9_SingleHop ==
    ( /\ Finished
      /\ Len(invocations) >= 1
      /\ route(invocations[1].message)[1] = CLAUDE_CODE
      /\ CLAUDE_CODE \in invocations[1].up
      /\ invocations[1].outcome = "ok"
      /\ NoDirective(1) )
    => /\ Len(invocations) = 1
       /\ hop_count = 1
       /\ Len(messages) = 2
       /\ messages[1].role = "user"
       /\ messages[1].content = invocations[1].message
       /\ messages[2].role = "assistant"
       /\ messages[2].agent = CLAUDE_CODE

\* C10: the agent invoked is available; it is the requested one when that is
\* registered and available, else the first available one in registration
\* order.  When no agent is available the call fails with "No agents
\* available": chat and chat_stream raise it with no user turn appended and no
\* agent invoked, and so does the hop of process_message that meets it.
C10_FallbackOrder ==
    /\ \A k \in 1..Len(invocations) :
           LET v == invocations[k]
           IN  /\ v.agent \in v.up \cap Registered
               /\ v.requested \in v.up \cap Registered => v.agent = v.requested
               /\ \A i, j \in 1..Len(agents) :
                      (v.requested \notin v.up \cap Registered
                         /\ agents[j] = v.agent /\ i < j) => agents[i] \notin v.up
    /\ Cardinality(UserPositions) = Len(invocations)
    /\ (call \in {"chat", "chat_stream"} /\ available = {}) =>
           (result = "no_agents" /\ pc = "idle" /\ messages = <<>> /\ invocations = <<>>)
    /\ result = "no_agents" => available = {}
    /\ (call = "process_message" /\ Len(invocations) < hop_count) =>
           /\ available = {}
           /\ hop_count = Len(invocations) + 1
           /\ pc = "idle"
           /\ Last(console) = Ev("error", <<>>, "No agents available")

\* C10 witness: a fallback that had two available agents to choose from
C10_Witness ==
    \E k \in 1..Len(invocations) :
        /\ invocations[k].agent # invocations[k].requested
        /\ Cardinality(invocations[k].up) >= 2

\* C11: whatever the turn limit and the calls made, the conversation holds
\* at most max_history turns after each call.
C11_AtMostLimitTurns == Len(messages) <= max_history

SystemTurns(msgs) == SelectSeq(msgs, IsSystem)

OtherTurns(msgs) == SelectSeq(msgs, NotSystem)

IsPrefix(s, t) == Len(s) <= Len(t) /\ SubSeq(t, 1, Len(s)) = s

IsSuffix(s, t) == Len(s) <= Len(t) /\ SubSeq(t, Len(t) - Len(s) + 1, Len(t)) = s

\* C12: an append keeps every system turn that was in the conversation, in
\* order, and what it keeps of the other turns are the most recent ones.
C12_SystemTurnsKept ==
    [][ Append1 =>
          /\ IsPrefix(SystemTurns(messages), SystemTurns(messages'))
          /\ \/ IsSuffix(OtherTurns(messages'), OtherTurns(messages))
             \/ /\ OtherTurns(messages') # <<>>
                /\ IsSuffix(ButLast(OtherTurns(messages')), OtherTurns(messages)) ]_vars

\* C13: importing the file that export_session writes for a conversation gives
\* a conversation with the same session id and the same turns, field for
\* field (role, content, agent, timestamp, metadata); so does the import made.
C13_ExportImportFixedPoint ==
    /\ LET c == import_session(export_session(session_id, messages))
       IN  c.session_id = session_id /\ c.messages = messages
    /\ imported # <<>> =>
           imported[1].session_id = session_id /\ imported[1].messages = messages

\* C13 witness: a conversation was exported and imported that holds turns of the
\* three roles, with and without metadata, stamped on and off the whole second
C13_Witness ==
    /\ imported # <<>>
    /\ \A r \in {"user", "assistant", "system"} :
           \E i \in 1..Len(messages) : messages[i].role = r
    /\ \E i, j \in 1..Len(messages) :
           /\ Microsecond(messages[i].timestamp) = 0
           /\ Microsecond(messages[j].timestamp) # 0
    /\ \E i \in 1..Len(messages) : messages[i].metadata # {}

\* C14: fork() returns a conversation with another session id and the
\* original's turns; afterwards a call on the fork leaves the original's turns
\* as they were, and a call on the original leaves the fork's as they were.
C14_ForkIsIndependent ==
    [][ /\ Fork => /\ forked'[1].messages = messages
                   /\ forked'[1].session_id # session_id
        /\ (\E c \in Calls : OnFork(c)) => messages' = messages
        /\ (forked # <<>> /\ \E c \in Calls : OnOriginal(c))
               => forked'[1].messages = forked[1].messages ]_vars

\* C14 witness: after the fork both conversations were changed, and they differ
C14_Witness ==
    /\ forked # <<>>
    /\ Len(messages) >= 2
    /\ Len(forked[1].messages) >= 1
    /\ ~IsPrefix(forked[1].messages, messages)
    /\ ~IsPrefix(messages, forked[1].messages)

\* the first character of m that is not whitespace is a junior token
BeginsWithJunior(m) ==
    \E i \in 1..Len(m) :
        /\ LowerChar(m[i]) \in {"/local", "/junior"}
        /\ \A j \in 1..(i - 1) : m[j] \in Whitespace

C16_RouteReadsMessageOnly ==
    [][ (ret = <<>> /\ ret' # <<>> /\ ret'[1].op = "route") =>
          /\ \A context \in Summaries, rules \in RuleSets, default \in AgentType :
                 Router_route(Router(rules, default), arg, context) = ret'[1].value
          /\ router' = router
          /\ messages' = messages
          /\ session_id' = session_id ]_vars

\* C16 witness: route was called on a router built with rules and another default
C16_Witness ==
    /\ ret # <<>>
    /\ ret[1].op = "route"
    /\ router.rules # <<>>
    /\ BeginsWithJunior(arg)

\* the last line of a text, trailing whitespace not counted
LastLine(s) ==
    LET t == RStrip(s)
        breaks == {i \in 1..Len(t) : t[i] = "NL"}
    IN  IF breaks = {} THEN t ELSE SubSeq(t, MaxOf(breaks) + 1, Len(t))

\* the text before the last line
BeforeLastLine(s) ==
    LET t == RStrip(s)
    IN  SubSeq(t, 1, Len(t) - Len(LastLine(s)))

\* a line made of a delegate token, whitespace and free text
IsDirectiveLine(line) ==
    /\ Len(line) >= 3
    /\ LowerChar(line[1]) \in DelegateTokens
    /\ line[2] \in Whitespace

\* C18: extract_agent_command reports a directive exactly when the last line
\* of the reply is a delegate token, whitespace and free text; the clean part
\* is then the reply without that line and the directive is that line; every
\* other reply comes back unchanged with no directive.
C18_DirectiveIsLastLine ==
    (ret # <<>> /\ ret[1].op = "extract") =>
        IF IsDirectiveLine(LastLine(arg))
        THEN /\ ret[1].value.found
             /\ ret[1].value.clean = RStrip(BeforeLastLine(arg))
             /\ ret[1].value.command = LastLine(arg)
        ELSE /\ ~ret[1].value.found
             /\ ret[1].value.clean = arg

\* C17: in a process_message run the message the user typed is handled on
\* hop 1 by the senior agent (whenever it is available), and the junior agent
\* is invoked on request only for the directive found in the previous hop's
\* reply.
C17_UserTalksToSenior ==
    call = "process_message" =>
        \A k \in 1..Len(invocations) :
            /\ (invocations[k].hop = 1 /\ CLAUDE_CODE \in invocations[k].up) =>
                   invocations[k].agent = CLAUDE_CODE
            /\ (invocations[k].requested = LOCAL_FAST /\ invocations[k].agent = LOCAL_FAST) =>
                   /\ k > 1
                   /\ extract_agent_command(invocations[k - 1].response).found
                   /\ invocations[k].message =
                          extract_agent_command(invocations[k - 1].response).command

\* C19: get_context_for_agent leaves the conversation as it was: the stored
\* turns (order, count, every field) and the session id are the same after
\* the call as before, for every max_messages and max_chars.
C19_ContextLeavesConversation ==
    [][ (ret = <<>> /\ ret' # <<>>) =>
          /\ messages' = messages
          /\ session_id' = session_id
          /\ max_history' = max_history ]_vars

\* C19 witness: the character limit popped turns off the list the call worked
\* on, with no message limit before it, and the conversation still has them
C19_Witness ==
    /\ ret # <<>>
    /\ ~ret[1].hangs
    /\ arg[1] = 0
    /\ arg[2] # 0
    /\ Len(ret[1].value) < Len(messages)

\* C20: for every max_messages >= 1 get_context_for_agent returns at most
\* max_messages entries, however many system turns the conversation holds
\* (conversations within their own history limit are enough to show it).
C20_AtMostMaxMessages ==
    (ret # <<>> /\ ~ret[1].hangs /\ arg[1] >= 1 /\ Len(messages) <= max_history) =>
        Len(ret[1].value) <= arg[1]

\* msgs without its k oldest non-system turns
WithoutOldest(msgs, k) ==
    LET keep == {i \in 1..Len(msgs) :
                    \/ IsSystem(msgs[i])
                    \/ Cardinality({j \in 1..i : NotSystem(msgs[j])}) > k}
        nth(n) == CHOOSE i \in keep : Cardinality({j \in keep : j < i}) = n - 1
    IN  [n \in 1..Cardinality(keep) |-> msgs[nth(n)]]

\* the numbers of evictions after which the character budget is met or one
\* turn remains
EnoughEvictions(msgs, max_chars) ==
    {k \in 0..Len(SelectSeq(msgs, NotSystem)) :
        \/ total_chars(WithoutOldest(msgs, k)) <= max_chars
        \/ Len(WithoutOldest(msgs, k)) <= 1}

\* C21: with a character budget the window get_context_for_agent returns is
\* the window without its oldest non-system turns, as few of them as it takes
\* to meet the budget or to leave one turn; system turns all stay.
C21_OldestFirstUntilBudget ==
    (ret # <<>> /\ arg[2] # 0 /\ ~ret[1].hangs) =>
        LET window == message_limit(messages, arg[1])
            enough == EnoughEvictions(window, arg[2])
        IN  /\ enough # {}
            /\ ret[1].value =
                   [i \in 1..Len(WithoutOldest(window, MinOf(enough))) |->
                       to_api_format(WithoutOldest(window, MinOf(enough))[i])]

\* C21 witness: of a user turn, an assistant turn and a system turn the budget
\* left the system turn and the assistant turn
C21_Witness ==
    /\ ret # <<>>
    /\ ~ret[1].hangs
    /\ arg = <<0, 2>>
    /\ Len(messages) = 3
    /\ \E i \in 1..3 : messages[i].role = "system"
    /\ \E i, j \in 1..3 : i < j /\ messages[i].role = "user" /\ messages[j].role = "assistant"
    /\ Len(ret[1].value) = 2
    /\ \E i \in 1..2 : ret[1].value[i].role = "assistant"

\* the turns of the conversation and of its fork
AllTurns ==
    {messages[i] : i \in 1..Len(messages)} \cup
    (IF forked = <<>> THEN {}
     ELSE {forked[1].messages[i] : i \in 1..Len(forked[1].messages)})

\* C22: in every state reached by the add_ calls, trimming, clear, fork and
\* the orchestrator's hops, a turn has a producing agent if and only if its
\* role is assistant.
C22_AgentIffAssistant ==
    \A turn \in AllTurns : turn.agent # None <=> turn.role = "assistant"

\* C22 witness: after a hop of the orchestrator the conversation was forked
\* and holds a user turn and an assistant turn; the fork got a system turn
C22_Witness ==
    /\ invocations # <<>>
    /\ forked # <<>>
    /\ \E i \in 1..Len(messages) : messages[i].role = "user"
    /\ \E i \in 1..Len(messages) : messages[i].role = "assistant"
    /\ \E i \in 1..Len(forked[1].messages) : forked[1].messages[i].role = "assistant"
    /\ \E i \in 1..Len(forked[1].messages) : forked[1].messages[i].role = "system"

\* what the claim says a conversation holds after clear(keep_system)
Cleared(msgs, keep_system) ==
    IF keep_system THEN WithoutOldest(msgs, Len(msgs)) ELSE <<>>

\* C23: clear(keep_system=True) leaves exactly the system turns in their
\* previous order, clear(keep_system=False) leaves no turn; the session id and
\* the turn limit stay as they were (on the original and on a fork alike).
C23_ClearKeepsSystemTurns ==
    [][ \A k \in BOOLEAN :
          /\ OnOriginal([method |-> "clear", keep_system |-> k]) =>
                 /\ messages' = Cleared(messages, k)
                 /\ session_id' = session_id
                 /\ max_history' = max_history
          /\ OnFork([method |-> "clear", keep_system |-> k]) =>
                 /\ forked'[1].messages = Cleared(forked[1].messages, k)
                 /\ forked'[1].session_id = forked[1].session_id
                 /\ forked'[1].max_history = forked[1].max_history ]_vars

\* C23 witness: the fork still shows a user turn before a system turn, the
\* original (limit 2, so no trimming took place) holds the system turn alone
C23_Witness ==
    /\ max_history = 2
    /\ forked # <<>>
    /\ Len(forked[1].messages) = 2
    /\ forked[1].messages[1].role = "user"
    /\ forked[1].messages[2].role = "system"
    /\ messages = <<forked[1].messages[2]>>

\* C24: read_shared(id) returns the content of the most recent
\* write_shared with that id (when no delete of the id followed it), and
\* write_shared returns an id under which the content just written is read.
C24_LastWriteWins ==
    \A w \in Built :
        /\ (returned[w].op = "read" /\ journal[w][returned[w].arg].op = "write") =>
               returned[w].value =
                   [found |-> TRUE, content |-> journal[w][returned[w].arg].content]
        /\ returned[w].op = "write" =>
               read_shared(memory[w][1], returned[w].value) =
                   [found |-> TRUE, content |-> returned[w].arg]

\* C24 witness: two notes with id "a" are in the store and read_shared("a")
\* returned the content of the later write
C24_Witness ==
    /\ FALSE \in Built
    /\ returned[FALSE].op = "read"
    /\ returned[FALSE].arg = "a"
    /\ Len(memory[FALSE][1].notes) = 2
    /\ memory[FALSE][1].notes[1].id = "a"
    /\ memory[FALSE][1].notes[2].id = "a"
    /\ memory[FALSE][1].notes[1].content # memory[FALSE][1].notes[2].content
    /\ journal[FALSE]["a"].op = "write"
    /\ returned[FALSE].value.content = memory[FALSE][1].notes[1].content

\* C25: once delete_shared(id) has returned True, read_shared(id) returns
\* not-found until the next write_shared with that id.
C25_DeletedStaysDeleted ==
    \A w \in Built :
        (returned[w].op = "read" /\ journal[w][returned[w].arg].op = "delete") =>
            ~returned[w].value.found

\* the ids of the notes in a sequence of notes or of records are all different
UniqueIds(notes) ==
    \A i, j \in 1..Len(notes) : notes[i].id = notes[j].id => i = j

\* C26: in every state reached by write_shared and delete_shared no two notes
\* of the store and no two records of the persisted file have the same id.
C26_NoteIdsUnique ==
    \A w \in Built :
        /\ UniqueIds(memory[w][1].notes)
        /\ (returned[w].op = "write" \/ (returned[w].op = "delete" /\ returned[w].value)) =>
               UniqueIds(notes_file[w].items)

\* a notes file that does not hold a list of note records
Malformed(file) ==
    \/ file.kind \in {"invalid_json", "scalars", "object", "null"}
    \/ /\ file.kind = "list"
       /\ \E i \in 1..Len(file.items) : ~({"id", "content"} \subseteq DOMAIN file.items[i])

\* C27: building the store over a malformed local notes file does not fail
\* and gives an empty store.
C27_MalformedFileIsEmptyStore ==
    \A w \in ProbeOutcomes :
        (returned[w].op = "init" /\ Malformed(notes_file[w])) =>
            /\ returned[w].value = "none"
            /\ memory[w] # <<>>
            /\ memory[w][1].notes = <<>>

\* C30: the values returned and the notes persisted are the same whether the
\* probe succeeded or failed, for every initial notes file and every sequence
\* of calls on a store that could be built.
C30_BackendIndependent ==
    Built = ProbeOutcomes =>
        /\ returned[TRUE].op = returned[FALSE].op
        /\ returned[TRUE].value = returned[FALSE].value
        /\ returned[TRUE].op \in {"write", "delete"} => notes_file[TRUE] = notes_file[FALSE]

\* the turn records of a session document
RecordsOf(file) ==
    IF file.kind = "object" /\ "messages" \in DOMAIN file.doc THEN file.doc.messages ELSE <<>>

\* C28: import_session of a document whose turn records have role and content
\* succeeds, a missing agent read as none and a missing timestamp as the time
\* of the import; a document that is not well-formed, or has a turn record
\* without role or content, gives an error and no conversation.
C28_ImportDefaultsOrFails ==
    (ret # <<>> /\ ret[1].op = "import") =>
        IF /\ arg.kind = "object"
           /\ \A i \in 1..Len(RecordsOf(arg)) :
                  {"role", "content"} \subseteq DOMAIN RecordsOf(arg)[i]
        THEN /\ ret[1].raised = "none"
             /\ imported # <<>>
             /\ Len(imported[1].messages) = Len(RecordsOf(arg))
             /\ \A i \in 1..Len(RecordsOf(arg)) :
                    /\ imported[1].messages[i].role = RecordsOf(arg)[i].role
                    /\ imported[1].messages[i].content = RecordsOf(arg)[i].content
                    /\ "agent" \notin DOMAIN RecordsOf(arg)[i] =>
                           imported[1].messages[i].agent = None
                    /\ "timestamp" \notin DOMAIN RecordsOf(arg)[i] =>
                           imported[1].messages[i].timestamp = now
        ELSE /\ ret[1].raised # "none"
             /\ imported = <<>>

\* C28 witness: an import made later than the export read a turn record that
\* has neither agent nor timestamp
C28_Witness ==
    /\ ret # <<>>
    /\ ret[1].op = "import"
    /\ ret[1].raised = "none"
    /\ now = 1
    /\ \E i \in 1..Len(RecordsOf(arg)) :
           /\ DOMAIN RecordsOf(arg)[i] = {"role", "content", "metadata"}
           /\ imported[1].messages[i].agent = None
           /\ imported[1].messages[i].timestamp = 1

\* C29: at most one agent invocation is in flight at any time, and the
\* assistant turn of a call directly follows the user turn of that call.
C29_OneInvocationInFlight ==
    /\ Cardinality({t \in Tasks : tasks[t].pc = "awaiting"}) <= 1
    /\ \A t \in Tasks :
           tasks[t].assistant_turn # 0 => tasks[t].assistant_turn = tasks[t].user_turn + 1

\* the turns of a conversation, as a set (in a log no two turns are equal)
TurnsOf(msgs) == {msgs[i] : i \in 1..Len(msgs)}

\* of a set of logged turns, the k appended last
MostRecent(turns, k) ==
    {t \in turns : Cardinality({u \in turns : Len(u.content) > Len(t.content)}) < k}

\* the conversation before the last call, with the turn that call appended
Logged ==
    TurnsOf(ret[1].before)
        \cup {Message(IF ret[1].op = "add_user_message" THEN "user" ELSE "assistant",
                           arg,
                           IF ret[1].op = "add_user_message" THEN None ELSE CLAUDE_CODE,
                           {})}

C33_AppendOrderKept ==
    \A i, j \in 1..Len(messages) :
        i < j => Len(messages[i].content) < Len(messages[j].content)

\* C34: get_context_for_agent returns, for every conversation and every
\* max_messages and max_chars.
C34_ContextTerminates == ret # <<>> => ~ret[1].hangs

\* C39: get_last_n_messages(n) returns the min(n, number of turns) most
\* recent turns in order, no turn for n = 0, and leaves the conversation alone.
C39_LastNTurns ==
    (ret # <<>> /\ ret[1].op = "get_last_n_messages") =>
        LET k == IF ret[1].n < Len(messages) THEN ret[1].n ELSE Len(messages)
        IN  /\ Len(ret[1].value) = k
            /\ \A i \in 1..k : ret[1].value[i] = messages[Len(messages) - k + i]
            /\ messages = ret[1].before

\* C38: the conversation import_session restores has the turn limit of the
\* exported one, and after the same appends the same turns.
C38_ImportKeepsTurnLimit ==
    imported # <<>> =>
        /\ imported[1].max_history = max_history
        /\ imported[1].messages = messages

\* the agent the claim names for a call: the forced agent when one is given
\* and it is registered and available; with no forced agent the routed agent
\* when that is; else the first available agent in registration order
ExpectedAgent(m, force) ==
    LET up == Registered \cap available
    IN  IF force # None /\ force \in up THEN force
        ELSE IF force = None /\ route(m)[1] \in up THEN route(m)[1]
        ELSE CHOOSE a \in up :
                 \A i, j \in 1..Len(agents) : (agents[j] = a /\ i < j) => agents[i] \notin up

C35_HistoryIsWindowWithoutCurrent ==
    [][ \A m \in UserMessages, force \in {None} \cup AgentType :
          ((ChatCall(m, force) \/ ChatStreamCall(m, force)) /\ invocations' # invocations)
          => LET window  == get_context_for_agent(messages', WindowFor(agent_type'))
                 current == {i \in 1..Len(window) :
                                window[i] = [role |-> "user", content |-> m]}
             IN  Last(invocations').history =
                     IF current = {} THEN window ELSE Pop(window, MaxOf(current)) ]_vars

\* the note passes the filters of list_shared: its author is the one given,
\* and it has one of the tags given
PassesFilters(note, tags, author) ==
    /\ author # None => note.author = author
    /\ tags # <<>> => \E i \in 1..Len(tags), j \in 1..Len(note.tags) : tags[i] = note.tags[j]

\* C36: list_shared(tags, author, limit) returns the summaries of the
\* min(limit, m) most recent of the m notes that pass the filters, most recent
\* first.
C36_ListMostRecentMatching ==
    \A w \in Built :
        returned[w].op = "list" =>
            LET notes  == memory[w][1].notes
                hits   == {i \in 1..Len(notes) :
                              PassesFilters(notes[i], returned[w].arg[1], returned[w].arg[2])}
                k      == IF returned[w].arg[3] < Cardinality(hits)
                          THEN returned[w].arg[3] ELSE Cardinality(hits)
                nth(n) == CHOOSE i \in hits : Cardinality({j \in hits : j < i}) = n - 1
            IN  /\ Len(returned[w].value) = k
                /\ \A n \in 1..k :
                       /\ returned[w].value[n].id = notes[nth(n)].id
                       /\ returned[w].value[n].author = notes[nth(n)].author
                       /\ returned[w].value[n].tags = notes[nth(n)].tags
                       /\ returned[w].value[n].preview = notes[nth(n)].content

\* C37: with two stores over the same notes file, a note that was written
\* and not deleted since is in the file, whichever store wrote or deleted
\* afterwards.
C37_NoLostNote ==
    \A id \in NoteIds \cup Uuids :
        journal[SHARED_NOTES_FILE][id].op = "write" => id \in FileIds

====
